---- MODULE Spec2Model ----
(***************************************************************************)
(* FIFO lot matching, PnL postings and withholding-tax reconciliation of   *)
(* the brokerage importers (importers/ibkr.py, importers/finpension.py).   *)
(*                                                                         *)
(* Decimal amounts are integers (exact arithmetic, Decimal never rounds in *)
(* the ranges used).  Dates are day numbers.  A Python None is an empty    *)
(* tuple inside a list of optional items (inventory slots) and a record    *)
(* with isNone = TRUE for an optional Cost / price.                        *)
(***************************************************************************)
EXTENDS Integers, Sequences, FiniteSets, TLC

VARIABLES
    \* ---- one call of sell_from_lot (SpecLot)
    lot_pc,         \* "call" before the call, "returned" after it
    lot_inventory,  \* argument: the inventory
    lot_sell,       \* argument: the sell_lot dict
    lot_result,     \* what Importer.sell_from_lot (ibkr.py) returned
    lot_fp_result   \* what sell_from_lot (finpension.py) returned

lotVars == <<lot_pc, lot_inventory, lot_sell, lot_result, lot_fp_result>>

VARIABLES
    \* ---- the SELL branch of Importer.extract calling build_fifo_postings
    \*      on a history (SpecFifo)
    f_pc,           \* "history", "scan", "sort", "replay", "sale", "build", "done"
    f_entries,      \* argument entries = existing_entries + entries
    f_row,          \* the SELL row: transaction_id, lot_date, shares, ...
    f_k,            \* index of the next entry of the scan loop
    f_processed,    \* processed_transactions
    f_buys,         \* buys
    f_sells,        \* sells
    f_inventory,    \* inventory
    f_j,            \* index of the next prior sell to replay
    f_before,       \* the inventory passed to the last sell_from_lot call
    f_sold_lots,    \* sold_lots
    f_warnings,     \* logging.warning records, in order
    f_out,          \* the transactions appended by the SELL branch
    f_fp_postings   \* build_sell_postings (finpension.py) on the same sale

fifoVars == <<f_pc, f_entries, f_row, f_k, f_processed, f_buys, f_sells,
              f_inventory, f_j, f_before, f_sold_lots, f_warnings, f_out,
              f_fp_postings>>

VARIABLES
    \* ---- Importer.extract of ibkr.py on a file, called twice (SpecExtract)
    x_pc,           \* "file", "start", "rows", "pass1", "collect", "pass2",
                    \* "report", "returned"
    x_run,          \* 1: first call, 2: the call on history + first output
    x_file,         \* rows of the CSV file, header skipped
    x_existing,     \* argument existing_entries
    x_index,        \* index of the row / entry / tax loops
    x_entries,      \* entries
    x_taxes,        \* withholding_taxes
    x_unmatched,    \* unmatched_withholding_taxes
    x_pos,          \* position of the nested loops of the recalculation pass
    x_indexes,      \* indexes
    x_warnings,     \* warnings.warn records, in order
    x_log,          \* logging.warning records, in order
    x_out1          \* what the first call returned

extractVars == <<x_pc, x_run, x_file, x_existing, x_index, x_entries, x_taxes,
                 x_unmatched, x_pos, x_indexes, x_warnings, x_log, x_out1>>

VARIABLES
    \* ---- Importer.extract of finpension.py on a file (SpecRows)
    p_pc,           \* "file", "rows", "returned", "raised"
    p_file,         \* rows of the CSV file, header skipped
    p_index,        \* index of the row loop, counted from 1
    p_entries,      \* entries
    p_error         \* the exception that left extract, "" if none

fpVars == <<p_pc, p_file, p_index, p_entries, p_error>>

vars == <<lotVars, fifoVars, extractVars, fpVars>>

-----------------------------------------------------------------------------
(* Bounds of the model *)

MaxLots == 3
MaxQty == 2
MaxEntries == 3
MaxRows == 3
MaxLedger == 6

-----------------------------------------------------------------------------
(* Importer configuration: the accounts of the test fixture *)

parent_account == "Assets:Investment:IBKR"
income_account == "Income:Investment:IBKR"
tax_account == "Assets:Investment:IBKR:Tax"
fees_account == "Expenses:Investment:IBKR:Fees"
cash_account == parent_account \o ":Cash"
interests_account == income_account \o ":Interests"

Securities == {"X", "Y"}

-----------------------------------------------------------------------------
(* beancount.core data *)

Amount(number, currency) == [number |-> number, currency |-> currency]

NegAmount(a) == Amount(-a.number, a.currency)

Cost(number, currency, d) ==
    [isNone |-> FALSE, number |-> number, currency |-> currency, date |-> d]

NoCost == [isNone |-> TRUE, number |-> 0, currency |-> "", date |-> 0]

Price(number, currency) ==
    [isNone |-> FALSE, number |-> number, currency |-> currency]

NoPrice == [isNone |-> TRUE, number |-> 0, currency |-> ""]

Posting(account, units, cost, price, effective_date) ==
    [account |-> account, units |-> units, cost |-> cost, price |-> price,
     effective_date |-> effective_date]

\* posting.units / lot["units"] is None: the quantity is missing
MissingUnits == [isNone |-> TRUE]

\* a list index to None / to an item
None == <<>>
Some(x) == <<x>>

RECURSIVE FilterNone(_)
FilterNone(slots) ==
    IF slots = <<>> THEN <<>>
    ELSE Head(slots) \o FilterNone(Tail(slots))

RECURSIVE SumUnits(_)
SumUnits(lots) ==
    IF lots = <<>> THEN 0
    ELSE Head(lots).units.number + SumUnits(Tail(lots))

RECURSIVE Slots(_)
Slots(lots) ==
    IF lots = <<>> THEN <<>>
    ELSE <<Some(Head(lots))>> \o Slots(Tail(lots))

-----------------------------------------------------------------------------
(* Importer.sell_from_lot, ibkr.py *)

\* the logging.warning of an incomplete sale: target_sell aliases sell_lot,
\* so it shows the units still unmatched; inventory is the slot list
SellWarning(sell_lot, sell_units, inventory, sold_lots) ==
    [msg |-> "Error selling",
     target_sell |-> [sell_lot EXCEPT !.units = sell_units],
     inventory |-> inventory,
     sold |-> sold_lots]

\* mutant: the incomplete sale is not reported
SellResult_silent(sell_lot, sell_units, inventory, sold_lots, sale_complete) ==
    [inventory |-> FilterNone(inventory),
     sold_lots |-> sold_lots,
     sale_complete |-> sale_complete,
     sell_units |-> sell_units,
     warnings |-> <<>>]

\* lines 756-762 (finpension.py lines 178-184)
SellResult(sell_lot, sell_units, inventory, sold_lots, sale_complete) ==
    [inventory |-> FilterNone(inventory),
     sold_lots |-> sold_lots,
     sale_complete |-> sale_complete,
     sell_units |-> sell_units,
     warnings |-> IF sale_complete THEN <<>>
                  ELSE <<SellWarning(sell_lot, sell_units, inventory, sold_lots)>>]

\* line 713 (finpension.py line 135)
Leftover(lot, sell_units) == lot.units.number + sell_units.number

\* mutant: the split lot keeps its units
RemainingLot_unchanged(lot, leftover, security) == lot

\* lines 730-733 (finpension.py line 152): the lot left in the inventory
RemainingLot(lot, leftover, security) ==
    [lot EXCEPT !.units = Amount(leftover, security)]

\* mutant: the whole lot is reported as sold
SoldFragment_whole(lot, sell_units, security) == lot

\* line 736 (finpension.py line 158): the sold part of a split lot
SoldFragment(lot, sell_units, security) ==
    [lot EXCEPT !.units = Amount(-sell_units.number, security)]

\* lines 752-754 (finpension.py lines 174-176): the units still to sell
ReducedSell(lot, sell_units, security) ==
    Amount(sell_units.number + lot.units.number, security)

RECURSIVE SellLoop(_, _, _, _, _, _)
SellLoop(snapshot, index, inventory, sell_lot, sell_units, sold_lots) ==
    IF index > Len(snapshot)
    THEN SellResult(sell_lot, sell_units, inventory, sold_lots, FALSE)
    ELSE IF snapshot[index] = None
    THEN SellLoop(snapshot, index + 1, inventory, sell_lot, sell_units, sold_lots)
    ELSE
        LET lot == snapshot[index][1]
            security == sell_lot.units.currency
            leftover == Leftover(lot, sell_units)
        IN  IF leftover = 0
            THEN SellResult(sell_lot, sell_units,
                            [inventory EXCEPT ![index] = None],
                            Append(sold_lots, lot), TRUE)
            ELSE IF leftover > 0
            THEN SellResult(sell_lot, sell_units,
                            [inventory EXCEPT ![index] =
                                Some(RemainingLot(lot, leftover, security))],
                            Append(sold_lots,
                                   SoldFragment(lot, sell_units, security)),
                            TRUE)
            ELSE SellLoop(snapshot, index + 1,
                          [inventory EXCEPT ![index] = None],
                          sell_lot,
                          ReducedSell(lot, sell_units, security),
                          Append(sold_lots, lot))

Reverse(seq) == [i \in 1..Len(seq) |-> seq[Len(seq) + 1 - i]]

\* mutant: the newest lot is consumed first
sell_from_lot_lifo(inventory, sell_lot) ==
    LET r == SellLoop(Slots(Reverse(inventory)), 1, Slots(Reverse(inventory)),
                      sell_lot, sell_lot.units, <<>>)
    IN  [r EXCEPT !.inventory = Reverse(r.inventory)]

\* the loop runs over copy.deepcopy(inventory) and writes to inventory
sell_from_lot(inventory, sell_lot) ==
    SellLoop(Slots(inventory), 1, Slots(inventory), sell_lot, sell_lot.units, <<>>)

-----------------------------------------------------------------------------
(* sell_from_lot, finpension.py: the same loop on lots without an "id".    *)
(* The split branch writes the units into the inventory's own dict.  A lot  *)
(* whose units is None is passed over (lines 128-131).                     *)

RECURSIVE FpSellLoop(_, _, _, _, _, _)
FpSellLoop(snapshot, index, inventory, sell_lot, sell_units, sold_lots) ==
    IF index > Len(snapshot)
    THEN SellResult(sell_lot, sell_units, inventory, sold_lots, FALSE)
    ELSE IF snapshot[index] = None
    THEN FpSellLoop(snapshot, index + 1, inventory, sell_lot, sell_units, sold_lots)
    ELSE IF snapshot[index][1].units = MissingUnits
    THEN FpSellLoop(snapshot, index + 1, inventory, sell_lot, sell_units, sold_lots)
    ELSE
        LET lot == snapshot[index][1]
            security == sell_lot.units.currency
            leftover == Leftover(lot, sell_units)
        IN  IF leftover = 0
            THEN SellResult(sell_lot, sell_units,
                            [inventory EXCEPT ![index] = None],
                            sold_lots \o <<lot>>, TRUE)
            ELSE IF leftover > 0
            THEN SellResult(sell_lot, sell_units,
                            [inventory EXCEPT ![index][1].units =
                                Amount(leftover, security)],
                            sold_lots \o
                                <<SoldFragment(lot, sell_units, security)>>,
                            TRUE)
            ELSE FpSellLoop(snapshot, index + 1,
                            [inventory EXCEPT ![index] = None],
                            sell_lot,
                            ReducedSell(lot, sell_units, security),
                            sold_lots \o <<lot>>)

fp_sell_from_lot(inventory, sell_lot) ==
    FpSellLoop(Slots(inventory), 1, Slots(inventory), sell_lot, sell_lot.units, <<>>)

-----------------------------------------------------------------------------
(* SpecLot: one call of sell_from_lot on an inventory sorted by date *)

Lot(id, units, cost, d) == [id |-> id, units |-> units, cost |-> cost, date |-> d]

FpLot(lot) == [units |-> lot.units, cost |-> lot.cost, date |-> lot.date]

CostNumbers == {10, 20}

Dates == {1, 2, 3}

NoLot == Lot(0, Amount(0, "X"), NoCost, 0)

LotVarsAt(pc) ==
    /\ lot_pc = pc
    /\ lot_inventory = <<>>
    /\ lot_sell = NoLot
    /\ lot_result = <<>>
    /\ lot_fp_result = <<>>

\* the caller's inventory: open lots with positive units, sorted by date
\* (buys.sort(key=date); inventory = buys)
AddLot ==
    /\ lot_pc = "build"
    /\ Len(lot_inventory) < MaxLots
    /\ \E q \in 1..MaxQty, c \in CostNumbers, d \in Dates :
          /\ lot_inventory # <<>> => lot_inventory[Len(lot_inventory)].date <= d
          /\ lot_inventory' =
                Append(lot_inventory, Lot(0, Amount(q, "X"), Cost(c, "CHF", d), d))
    /\ UNCHANGED <<lot_pc, lot_sell, lot_result, lot_fp_result>>
    /\ UNCHANGED <<fifoVars, extractVars, fpVars>>

\* the sell_lot dicts the callers pass: negative units for a sale; zero and
\* a positive number are what a row or posting can also carry
SellLots(inv) ==
    {Lot(0, Amount(n, "X"), NoCost, 3) : n \in -(SumUnits(inv) + 1)..1}

CallSellFromLot ==
    /\ lot_pc = "build"
    /\ lot_pc' = "returned"
    /\ \E sell \in SellLots(lot_inventory) :
          /\ lot_sell' = sell
          /\ lot_result' = sell_from_lot(lot_inventory, sell)
          /\ lot_fp_result' =
                fp_sell_from_lot([i \in 1..Len(lot_inventory) |->
                                     FpLot(lot_inventory[i])],
                                 FpLot(sell))
    /\ UNCHANGED lot_inventory
    /\ UNCHANGED <<fifoVars, extractVars, fpVars>>

-----------------------------------------------------------------------------
(* Transactions and their metadata *)

\* entry.meta: "trans_id" may be absent from the metadata of an existing entry
Meta(has_trans_id, trans_id, has_document) ==
    [has_trans_id |-> has_trans_id, trans_id |-> trans_id,
     has_document |-> has_document]

\* narration f"<prefix> <security>" / a fixed word (security "")
Narration(prefix, security) == [prefix |-> prefix, security |-> security]

Transaction(meta, d, narration, ps) ==
    [meta |-> meta, date |-> d, narration |-> narration, postings |-> ps]

\* trans_id is the string row["Id"]: the decimal digits of the number
RECURSIVE Digits(_)
Digits(n) == IF n < 10 THEN <<n>> ELSE Append(Digits(n \div 10), n % 10)

\* Python's str comparison a < b on two digit strings
RECURSIVE SeqLess(_, _)
SeqLess(a, b) ==
    IF b = <<>> THEN FALSE
    ELSE IF a = <<>> THEN TRUE
    ELSE IF Head(a) # Head(b) THEN Head(a) < Head(b)
    ELSE SeqLess(Tail(a), Tail(b))

StrLess(a, b) == SeqLess(Digits(a), Digits(b))

StrGE(a, b) == ~StrLess(a, b)

security_account(security) == parent_account \o ":" \o security

pnl_account(security) == income_account \o ":" \o security \o ":PnL"

-----------------------------------------------------------------------------
(* Importer.build_fifo_postings, ibkr.py *)

\* lines 617-638: the postings of one entry on the security account
RECURSIVE TradeLots(_, _, _)
TradeLots(entry, ps, account) ==
    IF ps = <<>> THEN <<>>
    ELSE IF Head(ps).account = account
         THEN <<Lot(entry.meta.trans_id, Head(ps).units, Head(ps).cost, entry.date)>>
              \o TradeLots(entry, Tail(ps), account)
         ELSE TradeLots(entry, Tail(ps), account)

IsBuy(lot) == lot.units.number > 0

IsSell(lot) == ~(lot.units.number > 0)

\* mutant: no check against processed_transactions
ScanSkips_nodedup(entry, transaction_id, processed) ==
    \/ ~entry.meta.has_trans_id
    \/ StrGE(entry.meta.trans_id, transaction_id)

\* lines 604-615: is the entry skipped by the scan
ScanSkips(entry, transaction_id, processed) ==
    \/ ~entry.meta.has_trans_id
    \/ StrGE(entry.meta.trans_id, transaction_id)
    \/ \E i \in 1..Len(processed) : processed[i] = entry.meta.trans_id

\* list.sort(key=date): stable insertion of x into a list sorted by date
RECURSIVE InsertByDate(_, _)
InsertByDate(sorted, x) ==
    IF sorted = <<>> THEN <<x>>
    ELSE IF x.date < Head(sorted).date THEN <<x>> \o sorted
    ELSE <<Head(sorted)>> \o InsertByDate(Tail(sorted), x)

RECURSIVE SortByDate(_)
SortByDate(lots) ==
    IF lots = <<>> THEN <<>>
    ELSE InsertByDate(SortByDate(SubSeq(lots, 1, Len(lots) - 1)), lots[Len(lots)])

\* lines 658-662
RECURSIVE CostOfLots(_)
CostOfLots(lots) ==
    IF lots = <<>> THEN 0
    ELSE (IF Head(lots).cost.isNone THEN 0
          ELSE Head(lots).cost.number * Head(lots).units.number)
         + CostOfLots(Tail(lots))

\* mutant: the accumulator is negated
pnl_cash_flow_negated(proceeds, lots) == -(-proceeds.number + CostOfLots(lots))

pnl_cash_flow(proceeds, lots) == -proceeds.number + CostOfLots(lots)

\* lines 684-694
LotPostings(account, lots, price) ==
    [i \in 1..Len(lots) |->
        Posting(account, NegAmount(lots[i].units), lots[i].cost, price, 0)]

\* mutant: the fees posting comes after the security postings
SalePostings_feeslast(security, lots, proceeds, price, commission) ==
    <<Posting(cash_account,
              Amount(proceeds.number + commission.number, proceeds.currency),
              NoCost, NoPrice, 0),
      Posting(pnl_account(security),
              Amount(pnl_cash_flow(proceeds, lots), proceeds.currency),
              NoCost, NoPrice, 0)>>
    \o LotPostings(security_account(security), lots, price)
    \o (IF commission.number # 0
        THEN <<Posting(fees_account, NegAmount(commission), NoCost, NoPrice, 0)>>
        ELSE <<>>)

\* lines 664-696
SalePostings(security, lots, proceeds, price, commission) ==
    <<Posting(cash_account,
              Amount(proceeds.number + commission.number, proceeds.currency),
              NoCost, NoPrice, 0),
      Posting(pnl_account(security),
              Amount(pnl_cash_flow(proceeds, lots), proceeds.currency),
              NoCost, NoPrice, 0)>>
    \o (IF commission.number # 0
        THEN <<Posting(fees_account, NegAmount(commission), NoCost, NoPrice, 0)>>
        ELSE <<>>)
    \o LotPostings(security_account(security), lots, price)

\* lines 599-638: the scan loop from entry k on; the lots found, in order
RECURSIVE FifoScan(_, _, _, _, _)
FifoScan(entries, k, transaction_id, account, processed) ==
    IF k > Len(entries) THEN <<>>
    ELSE IF ScanSkips(entries[k], transaction_id, processed)
    THEN FifoScan(entries, k + 1, transaction_id, account, processed)
    ELSE TradeLots(entries[k], entries[k].postings, account)
         \o FifoScan(entries, k + 1, transaction_id, account,
                     Append(processed, entries[k].meta.trans_id))

\* mutant: the prior sells are not applied
FifoReplay_nosells(inventory, sells, warned) ==
    [inventory |-> inventory, warnings |-> warned]

\* lines 644-645: the prior sells applied in order
RECURSIVE FifoReplay(_, _, _)
FifoReplay(inventory, sells, warned) ==
    IF sells = <<>> THEN [inventory |-> inventory, warnings |-> warned]
    ELSE LET r == sell_from_lot(inventory, Head(sells))
         IN  FifoReplay(r.inventory, Tail(sells), warned \o r.warnings)

\* mutant: the sale is matched against the buys of the history, the prior
\* sells are not replayed
build_fifo_postings_noreplay(entries, transaction_id, lot_date, shares, proceeds, price, commission) ==
    LET security == shares.currency
        lots == FifoScan(entries, 1, transaction_id, security_account(security), <<>>)
        sale == sell_from_lot(SortByDate(SelectSeq(lots, IsBuy)),
                              Lot(transaction_id, shares, NoCost, lot_date))
    IN  [postings |-> SalePostings(security, sale.sold_lots, proceeds, price,
                                   commission),
         warnings |-> sale.warnings]

\* lines 580-696: the postings returned and the warnings logged
build_fifo_postings(entries, transaction_id, lot_date, shares, proceeds, price, commission) ==
    LET security == shares.currency
        lots == FifoScan(entries, 1, transaction_id, security_account(security), <<>>)
        before == FifoReplay(SortByDate(SelectSeq(lots, IsBuy)),
                             SortByDate(SelectSeq(lots, IsSell)), <<>>)
        sale == sell_from_lot(before.inventory,
                              Lot(transaction_id, shares, NoCost, lot_date))
    IN  [postings |-> SalePostings(security, sale.sold_lots, proceeds, price,
                                   commission),
         warnings |-> before.warnings \o sale.warnings]

-----------------------------------------------------------------------------
(* build_sell_postings, finpension.py *)

\* lines 39-60: the postings of one entry on sec_account
RECURSIVE FpTradeLots(_, _, _)
FpTradeLots(entry, ps, account) ==
    IF ps = <<>> THEN <<>>
    ELSE IF Head(ps).account = account /\ Head(ps).units # MissingUnits
         THEN <<[units |-> Head(ps).units, cost |-> Head(ps).cost,
                 date |-> entry.date]>>
              \o FpTradeLots(entry, Tail(ps), account)
         ELSE FpTradeLots(entry, Tail(ps), account)

\* lines 29-60
RECURSIVE FpScan(_, _, _)
FpScan(entries, account, lot_date) ==
    IF entries = <<>> THEN <<>>
    ELSE (IF Head(entries).date > lot_date THEN <<>>
          ELSE FpTradeLots(Head(entries), Head(entries).postings, account))
         \o FpScan(Tail(entries), account, lot_date)

\* lines 66-67
RECURSIVE FpReplay(_, _)
FpReplay(inventory, sells) ==
    IF sells = <<>> THEN inventory
    ELSE FpReplay(fp_sell_from_lot(inventory, Head(sells)).inventory, Tail(sells))

\* lines 62-113; fx_rate is a Price or NoPrice (None)
fp_build_sell_postings(entries, sec_account, cash, pnl, lot_date, shares, price, proceeds, fx_rate) ==
    LET lots == FpScan(entries, sec_account, lot_date)
        inventory == FpReplay(SortByDate(SelectSeq(lots, IsBuy)),
                              SortByDate(SelectSeq(lots, IsSell)))
        sold == fp_sell_from_lot(inventory,
                    [units |-> shares, cost |-> NoCost, date |-> lot_date]).sold_lots
        flow == (IF fx_rate.isNone THEN -proceeds.number
                 ELSE -proceeds.number * fx_rate.number) + CostOfLots(sold)
        share_currency == IF fx_rate.isNone THEN "CHF" ELSE fx_rate.currency
        lot_price == IF fx_rate.isNone THEN price
                     ELSE Price(price.number * fx_rate.number, fx_rate.currency)
    IN  <<Posting(cash, proceeds, NoCost, fx_rate, 0),
          Posting(pnl, Amount(flow, share_currency), NoCost, NoPrice, 0)>>
        \o LotPostings(sec_account, sold, lot_price)

-----------------------------------------------------------------------------
(* SpecFifo: the SELL branch of Importer.extract, ibkr.py lines 363-390,   *)
(* with build_fifo_postings run step by step on a history.  The fields of  *)
(* the row are drawn where the code first reads them.                      *)

HistoryIds == {1, 2}
SellIds == {2, 3}
HistoryDates == {1, 2}
SellDate == 3

\* the trades an entry of the history can hold on the account of X: a buy at
\* cost, on day 1 a buy entered without cost, on day 2 the sale of a unit
\* bought on day 1
HistoryTrades(d) ==
    {[units |-> Amount(3, "X"), cost |-> Cost(10, "CHF", d), cash |-> -30]}
    \cup (IF d = 1
          THEN {[units |-> Amount(1, "X"), cost |-> NoCost, cash |-> -10]}
          ELSE {[units |-> Amount(-1, "X"), cost |-> Cost(10, "CHF", 1),
                 cash |-> 10]})

TradeEntry(meta, d, security, trade) ==
    Transaction(meta, d,
                Narration(IF trade.units.number > 0 THEN "Buy" ELSE "Sell", security),
                <<Posting(cash_account, Amount(trade.cash, "CHF"), NoCost, NoPrice, 0),
                  Posting(security_account(security),
                          Amount(trade.units.number, security), trade.cost,
                          NoPrice, 0)>>)

HistoryEntries ==
    UNION {{TradeEntry(Meta(TRUE, id, TRUE), d, "X", t) :
                id \in HistoryIds, t \in HistoryTrades(d)} : d \in HistoryDates}
    \cup {TradeEntry(Meta(FALSE, 0, FALSE), 1, "X",
                     [units |-> Amount(2, "X"), cost |-> Cost(10, "CHF", 1),
                      cash |-> -20]),
          TradeEntry(Meta(TRUE, 1, TRUE), 1, "Y",
                     [units |-> Amount(2, "Y"), cost |-> Cost(10, "CHF", 1),
                      cash |-> -20])}

\* row fields: Id, Date, Type, Currency, Proceeds, Security, Amount,
\* TradePrice, Commission, CommissionCurrency
Row(id, d, type, currency, proceeds, security, amt, trade_price, commission) ==
    [Id |-> id, Date |-> d, Type |-> type, Currency |-> currency,
     Proceeds |-> proceeds, Security |-> security, Amount |-> amt,
     TradePrice |-> trade_price, Commission |-> commission,
     CommissionCurrency |-> currency]

NoRow == Row(0, 0, "", "", 0, "", 0, 0, 0)

\* mutant: the metadata of a row carries no document
RowMeta_nodoc(row) == Meta(TRUE, row.Id, FALSE)

\* lines 100-108: meta of a row
RowMeta(row) == Meta(TRUE, row.Id, TRUE)

FifoVarsAt(pc) ==
    /\ f_pc = pc
    /\ f_entries = <<>>
    /\ f_row = NoRow
    /\ f_k = 1
    /\ f_processed = <<>>
    /\ f_buys = <<>>
    /\ f_sells = <<>>
    /\ f_inventory = <<>>
    /\ f_j = 1
    /\ f_before = <<>>
    /\ f_sold_lots = <<>>
    /\ f_warnings = <<>>
    /\ f_out = <<>>
    /\ f_fp_postings = <<>>

\* existing_entries + entries, as the caller passes them
AddEntry ==
    /\ f_pc = "history"
    /\ Len(f_entries) < MaxEntries
    /\ \E e \in HistoryEntries : f_entries' = Append(f_entries, e)
    /\ UNCHANGED <<f_pc, f_row, f_k, f_processed, f_buys, f_sells, f_inventory,
                   f_j, f_before, f_sold_lots, f_warnings, f_out, f_fp_postings>>
    /\ UNCHANGED <<lotVars, extractVars, fpVars>>

\* lines 100-110 and 364: a SELL row of security X is read
ReadSellRow ==
    /\ f_pc = "history"
    /\ f_pc' = "scan"
    /\ \E id \in SellIds :
          f_row' = Row(id, SellDate, "SELL", "CHF", 0, "X", 0, 0, 0)
    /\ UNCHANGED <<f_entries, f_k, f_processed, f_buys, f_sells, f_inventory,
                   f_j, f_before, f_sold_lots, f_warnings, f_out, f_fp_postings>>
    /\ UNCHANGED <<lotVars, extractVars, fpVars>>

\* lines 599-638: one iteration of "for entry in entries"
ScanEntry ==
    /\ f_pc = "scan"
    /\ f_k <= Len(f_entries)
    /\ f_k' = f_k + 1
    /\ LET entry == f_entries[f_k]
           lots == TradeLots(entry, entry.postings, security_account(f_row.Security))
       IN  IF ScanSkips(entry, f_row.Id, f_processed)
           THEN UNCHANGED <<f_processed, f_buys, f_sells>>
           ELSE /\ f_processed' = Append(f_processed, entry.meta.trans_id)
                /\ f_buys' = f_buys \o SelectSeq(lots, IsBuy)
                /\ f_sells' = f_sells \o SelectSeq(lots, IsSell)
    /\ UNCHANGED <<f_pc, f_entries, f_row, f_inventory, f_j, f_before,
                   f_sold_lots, f_warnings, f_out, f_fp_postings>>
    /\ UNCHANGED <<lotVars, extractVars, fpVars>>

\* lines 640-643
SortTrades ==
    /\ f_pc = "scan"
    /\ f_k > Len(f_entries)
    /\ f_pc' = "replay"
    /\ f_buys' = SortByDate(f_buys)
    /\ f_sells' = SortByDate(f_sells)
    /\ f_inventory' = SortByDate(f_buys)
    /\ UNCHANGED <<f_entries, f_row, f_k, f_processed, f_j, f_before,
                   f_sold_lots, f_warnings, f_out, f_fp_postings>>
    /\ UNCHANGED <<lotVars, extractVars, fpVars>>

\* lines 644-645: one iteration of "for sell in sells" (the sell dict the
\* call mutates is not read again)
ReplaySell ==
    /\ f_pc = "replay"
    /\ f_j <= Len(f_sells)
    /\ f_j' = f_j + 1
    /\ LET r == sell_from_lot(f_inventory, f_sells[f_j])
       IN  /\ f_inventory' = r.inventory
           /\ f_warnings' = f_warnings \o r.warnings
    /\ f_before' = f_inventory
    /\ UNCHANGED <<f_pc, f_entries, f_row, f_k, f_processed, f_buys, f_sells,
                   f_sold_lots, f_out, f_fp_postings>>
    /\ UNCHANGED <<lotVars, extractVars, fpVars>>

SaleAmounts == {-3, -1, 0, 1}

\* lines 365 and 647-656: shares = Amount(D(row["Amount"]), security)
SellCurrent ==
    /\ f_pc = "replay"
    /\ f_j > Len(f_sells)
    /\ f_pc' = "build"
    /\ \E amt \in SaleAmounts :
          LET r == sell_from_lot(f_inventory,
                                 Lot(f_row.Id, Amount(amt, f_row.Security),
                                     NoCost, f_row.Date))
          IN  /\ f_row' = [f_row EXCEPT !.Amount = amt]
              /\ f_inventory' = r.inventory
              /\ f_sold_lots' = r.sold_lots
              /\ f_warnings' = f_warnings \o r.warnings
    /\ f_before' = f_inventory
    /\ UNCHANGED <<f_entries, f_k, f_processed, f_buys, f_sells, f_j, f_out,
                   f_fp_postings>>
    /\ UNCHANGED <<lotVars, extractVars, fpVars>>

\* finpension rows: CHF, or USD with an fx rate to CHF
FpCurrency(fx_rate) == IF fx_rate.isNone THEN "CHF" ELSE "USD"

Commissions == {0, -1}
FxRates == {NoPrice, Price(2, "CHF")}
SaleProceeds == {30}
SalePrices == {30}

\* lines 109, 366-390 and 658-696: the postings are built and the
\* transaction is appended
EmitSell ==
    /\ f_pc = "build"
    /\ f_pc' = "done"
    /\ \E fx_rate \in FxRates :
          f_fp_postings' =
              fp_build_sell_postings(f_entries, security_account(f_row.Security),
                                     cash_account, pnl_account(f_row.Security),
                                     f_row.Date,
                                     Amount(f_row.Amount, f_row.Security),
                                     Price(30, FpCurrency(fx_rate)),
                                     Amount(30, FpCurrency(fx_rate)), fx_rate)
    /\ \E proceeds \in SaleProceeds, trade_price \in SalePrices,
          commission \in Commissions :
          LET row == [f_row EXCEPT !.Proceeds = proceeds,
                                   !.TradePrice = trade_price,
                                   !.Commission = commission]
          IN  /\ f_row' = row
              /\ f_out' = Append(f_out,
                    Transaction(RowMeta(row), row.Date,
                                Narration("Sell", row.Security),
                                SalePostings(row.Security, f_sold_lots,
                                             Amount(row.Proceeds, row.Currency),
                                             Price(row.TradePrice, row.Currency),
                                             Amount(row.Commission,
                                                    row.CommissionCurrency))))
    /\ UNCHANGED <<f_entries, f_k, f_processed, f_buys, f_sells, f_inventory,
                   f_j, f_before, f_sold_lots, f_warnings>>
    /\ UNCHANGED <<lotVars, extractVars, fpVars>>

-----------------------------------------------------------------------------
(* SpecExtract: Importer.extract, ibkr.py lines 56-578, on a file of rows; *)
(* the caller then calls it again on the same file with the history        *)
(* followed by what the first call returned.                               *)

\* one record of withholding_taxes: [security, book_date, cashFlow, False, meta]
TaxRecord(security, d, amt, consumed, meta) ==
    [security |-> security, date |-> d, amount |-> amt, consumed |-> consumed,
     meta |-> meta]

\* a warnings.warn / logging.warning message about a security and a date
Warn(msg, security, d, value) ==
    [msg |-> msg, security |-> security, date |-> d, value |-> value]

dividend_account(security) == income_account \o ":" \o security \o ":Dividends"

\* lines 109: cashFlow of a row
CashFlow(row) == Amount(row.Proceeds, row.Currency)

\* mutant: every date parses
DateParses_lenient(row) == TRUE

\* line 102: parse(row["Date"]) succeeds; the unparsable date is written 0
DateParses(row) == row.Date # 0

\* line 235: "." in security, for the currency pairs of the FX rows
FxPairs == {"EUR.CHF"}

IsFxPair(security) == security \in FxPairs

\* lines 241-247: security[:3] and security[4:]
FxBase(security) == CASE security = "EUR.CHF" -> "EUR"

FxQuote(security) == CASE security = "EUR.CHF" -> "CHF"

\* lines 99-407: what one row appends to entries and to withholding_taxes,
\* and what it reports; history is existing_entries + entries; the warning of
\* a row that raised ValueError names the row
RowResult(row, history) ==
    LET meta == RowMeta(row)
        cashFlow == CashFlow(row)
        security == row.Security
        commission == Amount(row.Commission, row.CommissionCurrency)
        none == [entries |-> <<>>, taxes |-> <<>>, warnings |-> <<>>, log |-> <<>>]
        one(narration, ps) ==
            [none EXCEPT !.entries = <<Transaction(meta, row.Date, narration, ps)>>]
    IN  IF ~DateParses(row)
        THEN [none EXCEPT !.warnings = <<Warn("Error parsing row", "", 0, row.Id)>>]
        ELSE
        CASE row.Type = "Deposits/Withdrawals" ->
                one(Narration(IF cashFlow.number > 0 THEN "Deposit"
                              ELSE "Withdrawal", ""),
                    <<Posting(cash_account, cashFlow, NoCost, NoPrice, 0)>>)
          [] row.Type = "Other Fees" ->
                one(Narration("Other", ""),
                    <<Posting(cash_account, cashFlow, NoCost, NoPrice, 0)>>)
          [] row.Type = "Broker Interest Received" ->
                one(Narration("Interests", ""),
                    <<Posting(cash_account, cashFlow, NoCost, NoPrice, 0),
                      Posting(interests_account, NegAmount(cashFlow), NoCost,
                              NoPrice, 0)>>)
          [] row.Type \in {"BUY", "SELL"} /\ IsFxPair(security) ->
                one(Narration("FX Exchange", security),
                    <<Posting(cash_account, Amount(row.Amount, FxBase(security)),
                              NoCost, Price(row.TradePrice, FxQuote(security)), 0),
                      Posting(cash_account,
                              Amount(row.Proceeds, FxQuote(security)), NoCost,
                              NoPrice, 0)>>
                    \o (IF commission.number # 0
                        THEN <<Posting(cash_account, commission, NoCost,
                                       NoPrice, 0),
                               Posting(fees_account, NegAmount(commission),
                                       NoCost, NoPrice, 0)>>
                        ELSE <<>>))
          [] row.Type = "Dividends" ->
                one(Narration("Dividends", security),
                    <<Posting(cash_account, cashFlow, NoCost, NoPrice, 0),
                      Posting(dividend_account(security), NegAmount(cashFlow),
                              NoCost, NoPrice, 0)>>)
          [] row.Type = "Withholding Tax" ->
                [none EXCEPT !.taxes =
                    <<TaxRecord(security, row.Date, cashFlow, FALSE, meta)>>]
          [] row.Type = "BUY" /\ ~IsFxPair(security) ->
                one(Narration("Buy", security),
                    <<Posting(cash_account,
                              Amount(row.Proceeds + row.Commission, row.Currency),
                              NoCost, NoPrice, 0),
                      Posting(security_account(security),
                              Amount(row.Amount, security),
                              Cost(row.TradePrice, row.Currency, row.Date),
                              NoPrice, 0),
                      Posting(fees_account, NegAmount(commission), NoCost,
                              NoPrice, 0)>>)
          [] row.Type = "SELL" /\ ~IsFxPair(security) ->
                LET r == build_fifo_postings(history, row.Id, row.Date,
                                             Amount(row.Amount, security),
                                             cashFlow,
                                             Price(row.TradePrice, row.Currency),
                                             commission)
                IN  [one(Narration("Sell", security), r.postings)
                        EXCEPT !.log = r.warnings]
          [] OTHER ->
                [none EXCEPT !.warnings =
                    <<Warn("unsupported transaction of type", row.Type,
                           row.Date, 0)>>]

\* lines 423 and 428: a dividend transaction and its security
IsDividend(entry) == entry.narration.prefix = "Dividends"

\* mutant: the last tax record of the security and date
FirstTax_last(taxes, security, d) ==
    LET matches(i) == taxes[i].security = security /\ taxes[i].date = d
    IN  IF \E i \in 1..Len(taxes) : matches(i)
        THEN CHOOSE i \in 1..Len(taxes) :
                 matches(i) /\ \A j \in (i + 1)..Len(taxes) : ~matches(j)
        ELSE 0

\* lines 432-435: index of the first tax record of the security and date, or 0
FirstTax(taxes, security, d) ==
    LET matches(i) == taxes[i].security = security /\ taxes[i].date = d
    IN  IF \E i \in 1..Len(taxes) : matches(i)
        THEN CHOOSE i \in 1..Len(taxes) :
                 matches(i) /\ \A j \in 1..(i - 1) : ~matches(j)
        ELSE 0

\* mutant: the cash posting keeps the dividend's amount
total_cash_flow_gross(tax, entry) ==
    Amount(entry.postings[1].units.number, tax.amount.currency)

\* lines 450-452
total_cash_flow(tax, entry) ==
    Amount(tax.amount.number + entry.postings[1].units.number,
           tax.amount.currency)

\* lines 453-473: the dividend transaction rebuilt with the tax
DirectMatch(entry, tax) ==
    Transaction(entry.meta, entry.date, entry.narration,
                <<Posting(cash_account, total_cash_flow(tax, entry), NoCost,
                          NoPrice, 0),
                  entry.postings[2],
                  Posting(tax_account, NegAmount(tax.amount), NoCost, NoPrice,
                          0)>>)

\* lines 485-488
Unconsumed(tax) == ~tax.consumed

\* lines 517-522: the units of the last posting on the tax account equal the
\* reimbursement
HasTaxValue(entry, amt) ==
    LET on_tax == SelectSeq(entry.postings, LAMBDA p : p.account = tax_account)
    IN  on_tax # <<>> /\ on_tax[Len(on_tax)].units = amt

\* lines 500-522: the entry is taken for the original dividend of the tax
IsOriginalDividend(entry, tax) ==
    /\ IsDividend(entry)
    /\ entry.narration.security = tax.security
    /\ HasTaxValue(entry, tax.amount)

\* mutant: the tax posting points back to the date of the reimbursement
Recalculation_undated(tax, match_tax, entry) ==
    LET cash_balance == Amount(tax.amount.number + match_tax.amount.number,
                               tax.amount.currency)
    IN  Transaction(tax.meta, tax.date, Narration("Dividends", tax.security),
                    <<Posting(cash_account, cash_balance, NoCost, NoPrice, 0),
                      Posting(dividend_account(tax.security),
                              Amount(0, tax.amount.currency), NoCost, NoPrice, 0),
                      Posting(tax_account, NegAmount(cash_balance), NoCost,
                              NoPrice, tax.date)>>)

\* lines 528-568: the synthetic transaction of a recalculation
Recalculation(tax, match_tax, entry) ==
    LET cash_balance == Amount(tax.amount.number + match_tax.amount.number,
                               tax.amount.currency)
    IN  Transaction(tax.meta, tax.date, Narration("Dividends", tax.security),
                    <<Posting(cash_account, cash_balance, NoCost, NoPrice, 0),
                      Posting(dividend_account(tax.security),
                              Amount(0, tax.amount.currency), NoCost, NoPrice, 0),
                      Posting(tax_account, NegAmount(cash_balance), NoCost,
                              NoPrice, entry.date)>>)

\* the rows a file can hold, with the Id of the row
ExtractRows(id) ==
    {Row(id, 1, "Dividends", "CHF", 100, "X", 0, 0, 0),
     Row(id, 2, "Dividends", "CHF", 100, "X", 0, 0, 0),
     Row(id, 1, "Withholding Tax", "CHF", -15, "X", 0, 0, 0),
     Row(id, 1, "Withholding Tax", "USD", -15, "X", 0, 0, 0),
     Row(id, 2, "Withholding Tax", "CHF", -15, "X", 0, 0, 0),
     Row(id, 2, "Withholding Tax", "CHF", 15, "X", 0, 0, 0),
     Row(id, 1, "Deposits/Withdrawals", "CHF", 100, "", 0, 0, 0),
     Row(id, 1, "Transfer", "CHF", 100, "", 0, 0, 0),
     Row(id, 1, "BUY", "CHF", -20, "X", 2, 10, -1),
     Row(id, 2, "SELL", "CHF", 15, "X", -1, 15, -1)}

\* the histories of the first call: none, or a dividend of an earlier file
\* with its withholding tax
ExistingHistories ==
    {<<>>,
     <<DirectMatch(
          RowResult(Row(0, 1, "Dividends", "CHF", 100, "X", 0, 0, 0),
                    <<>>).entries[1],
          TaxRecord("X", 1, Amount(-15, "CHF"), TRUE, Meta(TRUE, 0, TRUE)))>>}

StartPos == [i |-> 1, i2 |-> 1, part |-> "entries", e |-> 1]

ExtractVarsAt(pc, histories) ==
    /\ x_pc = pc
    /\ x_run = 1
    /\ x_file = <<>>
    /\ x_existing \in histories
    /\ x_index = 1
    /\ x_entries = <<>>
    /\ x_taxes = <<>>
    /\ x_unmatched = <<>>
    /\ x_pos = StartPos
    /\ x_indexes = <<>>
    /\ x_warnings = <<>>
    /\ x_log = <<>>
    /\ x_out1 = <<>>

\* the file: one more row, its Id the next transaction number
AddRow ==
    /\ x_pc = "file"
    /\ Len(x_file) < MaxRows
    /\ \E row \in ExtractRows(Len(x_file) + 1) : x_file' = Append(x_file, row)
    /\ UNCHANGED <<x_pc, x_run, x_existing, x_index, x_entries, x_taxes,
                   x_unmatched, x_pos, x_indexes, x_warnings, x_log, x_out1>>
    /\ UNCHANGED <<lotVars, fifoVars, fpVars>>

\* lines 56-97: the first call
CallExtract ==
    /\ x_pc = "file"
    /\ x_pc' = "rows"
    /\ UNCHANGED <<x_run, x_file, x_existing, x_index, x_entries, x_taxes,
                   x_unmatched, x_pos, x_indexes, x_warnings, x_log, x_out1>>
    /\ UNCHANGED <<lotVars, fifoVars, fpVars>>

\* mutant: a row whose Id is the trans_id of an entry of existing_entries is
\* left out
ReadRow_dedup ==
    /\ x_pc = "rows"
    /\ x_index <= Len(x_file)
    /\ LET r == RowResult(x_file[x_index], x_existing \o x_entries)
           known == \E i \in 1..Len(x_existing) :
                       /\ x_existing[i].meta.has_trans_id
                       /\ x_existing[i].meta.trans_id = x_file[x_index].Id
       IN  /\ x_entries' = IF known THEN x_entries ELSE x_entries \o r.entries
           /\ x_taxes' = IF known THEN x_taxes ELSE x_taxes \o r.taxes
           /\ x_warnings' = x_warnings \o r.warnings
           /\ x_log' = x_log \o r.log
    /\ x_index' = x_index + 1
    /\ UNCHANGED <<x_pc, x_run, x_file, x_existing, x_unmatched, x_pos,
                   x_indexes, x_out1>>
    /\ UNCHANGED <<lotVars, fifoVars, fpVars>>

\* mutant: the rows parsed so far are added to the caller's list
\* (existing_entries += entries) instead of to a new list
ReadRow_extend ==
    /\ x_pc = "rows"
    /\ x_index <= Len(x_file)
    /\ LET r == RowResult(x_file[x_index], x_existing \o x_entries)
       IN  /\ x_entries' = x_entries \o r.entries
           /\ x_taxes' = x_taxes \o r.taxes
           /\ x_warnings' = x_warnings \o r.warnings
           /\ x_log' = x_log \o r.log
    /\ x_existing' = x_existing \o x_entries
    /\ x_index' = x_index + 1
    /\ UNCHANGED <<x_pc, x_run, x_file, x_unmatched, x_pos, x_indexes, x_out1>>
    /\ UNCHANGED <<lotVars, fifoVars, fpVars>>

\* lines 98-407: one iteration of the row loop
ReadRow ==
    /\ x_pc = "rows"
    /\ x_index <= Len(x_file)
    /\ LET r == RowResult(x_file[x_index], x_existing \o x_entries)
       IN  /\ x_entries' = x_entries \o r.entries
           /\ x_taxes' = x_taxes \o r.taxes
           /\ x_warnings' = x_warnings \o r.warnings
           /\ x_log' = x_log \o r.log
    /\ x_index' = x_index + 1
    /\ UNCHANGED <<x_pc, x_run, x_file, x_existing, x_unmatched, x_pos,
                   x_indexes, x_out1>>
    /\ UNCHANGED <<lotVars, fifoVars, fpVars>>

\* line 417: the row loop is over, the loop over entries begins
EndRows ==
    /\ x_pc = "rows"
    /\ x_index > Len(x_file)
    /\ x_pc' = "pass1"
    /\ x_index' = 1
    /\ UNCHANGED <<x_run, x_file, x_existing, x_entries, x_taxes, x_unmatched,
                   x_pos, x_indexes, x_warnings, x_log, x_out1>>
    /\ UNCHANGED <<lotVars, fifoVars, fpVars>>

\* lines 417-482: one iteration of "for index, entry in enumerate(entries)"
DirectMatchEntry ==
    /\ x_pc = "pass1"
    /\ x_index <= Len(x_entries)
    /\ x_index' = x_index + 1
    /\ LET entry == x_entries[x_index]
           security == entry.narration.security
           i == FirstTax(x_taxes, security, entry.date)
       IN  IF ~IsDividend(entry)
           THEN UNCHANGED <<x_entries, x_taxes, x_warnings>>
           ELSE IF i = 0
           THEN /\ x_warnings' =
                      Append(x_warnings, Warn("Missing withholding tax",
                                              security, entry.date, 0))
                /\ UNCHANGED <<x_entries, x_taxes>>
           ELSE /\ x_warnings' =
                      IF x_taxes[i].consumed
                      THEN Append(x_warnings, Warn("Double match withholding tax",
                                                   security, entry.date, 0))
                      ELSE x_warnings
                /\ x_taxes' = [x_taxes EXCEPT ![i].consumed = TRUE]
                /\ x_entries' =
                      [x_entries EXCEPT ![x_index] = DirectMatch(entry, x_taxes[i])]
    /\ UNCHANGED <<x_pc, x_run, x_file, x_existing, x_unmatched, x_pos,
                   x_indexes, x_log, x_out1>>
    /\ UNCHANGED <<lotVars, fifoVars, fpVars>>

\* lines 484-491
CollectUnmatched ==
    /\ x_pc = "pass1"
    /\ x_index > Len(x_entries)
    /\ x_pc' = "pass2"
    /\ x_unmatched' = SelectSeq(x_taxes, Unconsumed)
    /\ x_indexes' = <<>>
    /\ x_pos' = StartPos
    /\ UNCHANGED <<x_run, x_file, x_existing, x_index, x_entries, x_taxes,
                   x_warnings, x_log, x_out1>>
    /\ UNCHANGED <<lotVars, fifoVars, fpVars>>

NextTax(pos) == [StartPos EXCEPT !.i = pos.i + 1]

NextMatchTax(pos) == [StartPos EXCEPT !.i = pos.i, !.i2 = pos.i2 + 1]

\* lines 492-568: one step of the nested loops: the next tax, the next
\* match_tax, or one entry of itertools.chain(entries, existing_entries)
RecalculationStep ==
    /\ x_pc = "pass2"
    /\ x_pos.i <= Len(x_unmatched)
    /\ LET tax == x_unmatched[x_pos.i]
           chained == IF x_pos.part = "entries" THEN x_entries ELSE x_existing
       IN  IF ~(tax.amount.number > 0) \/ x_pos.i2 > Len(x_unmatched)
           THEN /\ x_pos' = NextTax(x_pos)
                /\ UNCHANGED <<x_entries, x_indexes>>
           ELSE IF ~(/\ x_unmatched[x_pos.i2].security = tax.security
                     /\ x_unmatched[x_pos.i2].amount.number < 0)
           THEN /\ x_pos' = NextMatchTax(x_pos)
                /\ UNCHANGED <<x_entries, x_indexes>>
           ELSE IF x_pos.e > Len(chained)
           THEN /\ x_pos' = IF x_pos.part = "entries"
                            THEN [x_pos EXCEPT !.part = "existing", !.e = 1]
                            ELSE NextMatchTax(x_pos)
                /\ UNCHANGED <<x_entries, x_indexes>>
           ELSE /\ x_pos' = [x_pos EXCEPT !.e = x_pos.e + 1]
                /\ IF IsOriginalDividend(chained[x_pos.e], tax)
                   THEN /\ x_indexes' = x_indexes \o <<x_pos.i, x_pos.i2>>
                        /\ x_entries' =
                              Append(x_entries,
                                     Recalculation(tax, x_unmatched[x_pos.i2],
                                                   chained[x_pos.e]))
                   ELSE UNCHANGED <<x_entries, x_indexes>>
    /\ UNCHANGED <<x_pc, x_run, x_file, x_existing, x_index, x_taxes,
                   x_unmatched, x_warnings, x_log, x_out1>>
    /\ UNCHANGED <<lotVars, fifoVars, fpVars>>

\* lines 570-576: is the index in indexes
InIndexes(i) == \E n \in 1..Len(x_indexes) : x_indexes[n] = i

\* mutant: a reimbursement left over is not reported
RECURSIVE UnmatchedReport_negative(_)
UnmatchedReport_negative(i) ==
    IF i > Len(x_unmatched) THEN <<>>
    ELSE (IF InIndexes(i) \/ x_unmatched[i].amount.number > 0 THEN <<>>
          ELSE <<Warn("Unmatched withholding tax", x_unmatched[i].security,
                      x_unmatched[i].date, x_unmatched[i].amount)>>)
         \o UnmatchedReport_negative(i + 1)

RECURSIVE UnmatchedReport(_)
UnmatchedReport(i) ==
    IF i > Len(x_unmatched) THEN <<>>
    ELSE (IF InIndexes(i) THEN <<>>
          ELSE <<Warn("Unmatched withholding tax", x_unmatched[i].security,
                      x_unmatched[i].date, x_unmatched[i].amount)>>)
         \o UnmatchedReport(i + 1)

\* lines 570-578: the report of the taxes left, and the return
ReportAndReturn ==
    /\ x_pc = "pass2"
    /\ x_pos.i > Len(x_unmatched)
    /\ x_pc' = "returned"
    /\ x_log' = x_log \o UnmatchedReport(1)
    /\ UNCHANGED <<x_run, x_file, x_existing, x_index, x_entries, x_taxes,
                   x_unmatched, x_pos, x_indexes, x_warnings, x_out1>>
    /\ UNCHANGED <<lotVars, fifoVars, fpVars>>

\* lines 56-76: the second call, on the same file, with the history followed
\* by what the first call returned
CallExtractAgain ==
    /\ x_pc = "returned"
    /\ x_run = 1
    /\ x_run' = 2
    /\ x_pc' = "rows"
    /\ x_out1' = x_entries
    /\ x_existing' = x_existing \o x_entries
    /\ x_index' = 1
    /\ x_entries' = <<>>
    /\ x_taxes' = <<>>
    /\ x_unmatched' = <<>>
    /\ x_pos' = StartPos
    /\ x_indexes' = <<>>
    /\ x_warnings' = <<>>
    /\ x_log' = <<>>
    /\ UNCHANGED x_file
    /\ UNCHANGED <<lotVars, fifoVars, fpVars>>

-----------------------------------------------------------------------------
(* Importer.extract, finpension.py lines 220-453 *)

\* the accounts and securities of the test fixture
fp_parent_account == "Assets:FinPension:P5"
fp_income_account == "Income:FinPension"
fp_fees_account == "Expenses:FinPension:Fees"
fp_securities == [isin \in {"CH0012345678"} |-> "TestFundCHF"]

\* row fields: date, category, ISIN, shares, cashFlow
FpRow(d, category, isin, shares, cashFlow) ==
    [date |-> d, category |-> category, ISIN |-> isin, shares |-> shares,
     cashFlow |-> cashFlow]

\* position.CostSpec(number_per, number_total, currency, None, None, None)
CostSpec(number_per, number_total, currency) ==
    [isNone |-> FALSE, number |-> number_per, number_total |-> number_total,
     currency |-> currency, date |-> 0]

\* line 262: data.new_metadata(path, index) has no trans_id and no document
FpMeta == Meta(FALSE, 0, FALSE)

\* lines 417-421: abs() of a number; the quotient is exact for the rows used
FpAbs(n) == IF n < 0 THEN -n ELSE n

\* mutant: every date parses
FpDateParses_lenient(row) == TRUE

\* line 255: parse(row["date"]) succeeds; the unparsable date is written 0
FpDateParses(row) == row.date # 0

\* lines 254-452: the transaction one row appends, or the exception raised
FpRowResult(row) ==
    LET cashFlow == Amount(row.cashFlow, "CHF")
        cash == Posting(fp_parent_account \o ":Cash", cashFlow, NoCost, NoPrice, 0)
        raise(exception) == [entries |-> <<>>, error |-> exception]
        one(narration, ps) ==
            [entries |-> <<Transaction(FpMeta, row.date, narration, ps)>>,
             error |-> ""]
        security == fp_securities[row.ISIN]
    IN  CASE ~FpDateParses(row) -> raise("ValueError")
          [] FpDateParses(row) /\ row.category = "Flat-rate administrative fee" ->
                one(Narration(row.category, ""),
                    <<cash, Posting(fp_fees_account, NegAmount(cashFlow), NoCost,
                                    NoPrice, 0)>>)
          [] FpDateParses(row) /\ row.category \in {"Deposit", "Transfer"} ->
                one(Narration(row.category, ""), <<cash>>)
          [] FpDateParses(row) /\ row.category = "Interests" ->
                one(Narration(row.category, ""),
                    <<cash, Posting(fp_income_account \o ":Interests",
                                    NegAmount(cashFlow), NoCost, NoPrice, 0)>>)
          [] FpDateParses(row) /\ row.category \in {"Dividend", "Buy", "Sell"}
             /\ row.ISIN \notin DOMAIN fp_securities -> raise("KeyError")
          [] FpDateParses(row) /\ row.category = "Dividend"
             /\ row.ISIN \in DOMAIN fp_securities ->
                one(Narration("Dividends", security),
                    <<cash, Posting(fp_income_account \o ":" \o security
                                        \o ":Dividends",
                                    NegAmount(cashFlow), NoCost, NoPrice, 0)>>)
          [] FpDateParses(row) /\ row.category \in {"Buy", "Sell"}
             /\ row.ISIN \in DOMAIN fp_securities ->
                LET shares_number == FpAbs(row.shares)
                    total_cost == FpAbs(row.cashFlow)
                    cost_per_share == IF shares_number > 0
                                      THEN total_cost \div shares_number ELSE 0
                IN  one(Narration(row.category, security),
                        <<cash, Posting(fp_parent_account \o ":" \o security,
                                        Amount(row.shares, security),
                                        CostSpec(cost_per_share, total_cost, "CHF"),
                                        NoPrice, 0)>>)
          [] OTHER -> raise("Warning")

\* the rows a finpension file can hold
FpRows ==
    {FpRow(1, "Deposit", "", 0, 100),
     FpRow(1, "Flat-rate administrative fee", "", 0, -1),
     FpRow(1, "Interests", "", 0, 1),
     FpRow(1, "Transfer", "", 0, 100),
     FpRow(1, "Dividend", "CH0012345678", 0, 5),
     FpRow(1, "Buy", "CH0012345678", 2, -20),
     FpRow(2, "Sell", "CH0012345678", -1, 15),
     FpRow(1, "Buy", "", 1, -100),
     FpRow(1, "Unknown Category", "", 0, 588),
     FpRow(0, "Deposit", "", 0, 588)}

FpVarsAt(pc) ==
    /\ p_pc = pc
    /\ p_file = <<>>
    /\ p_index = 1
    /\ p_entries = <<>>
    /\ p_error = ""

\* the file: one more row at its end
FpAddRow ==
    /\ p_pc = "file"
    /\ Len(p_file) < MaxRows
    /\ \E row \in FpRows : p_file' = Append(p_file, row)
    /\ UNCHANGED <<p_pc, p_index, p_entries, p_error>>
    /\ UNCHANGED <<lotVars, fifoVars, extractVars>>

\* lines 220-251: the call
FpCallExtract ==
    /\ p_pc = "file"
    /\ p_pc' = "rows"
    /\ UNCHANGED <<p_file, p_index, p_entries, p_error>>
    /\ UNCHANGED <<lotVars, fifoVars, extractVars>>

\* mutant: a row that raises is left out and the loop goes on
FpReadRow_skip ==
    /\ p_pc = "rows"
    /\ p_index <= Len(p_file)
    /\ LET r == FpRowResult(p_file[Len(p_file) - p_index + 1])
       IN  p_entries' = p_entries \o r.entries
    /\ p_index' = p_index + 1
    /\ UNCHANGED <<p_pc, p_file, p_error>>
    /\ UNCHANGED <<lotVars, fifoVars, extractVars>>

\* lines 253-452: one iteration of "for index, row in
\* enumerate(reversed(rows))"; an exception leaves extract
FpReadRow ==
    /\ p_pc = "rows"
    /\ p_index <= Len(p_file)
    /\ LET r == FpRowResult(p_file[Len(p_file) - p_index + 1])
       IN  /\ p_entries' = p_entries \o r.entries
           /\ p_error' = r.error
           /\ p_pc' = IF r.error = "" THEN "rows" ELSE "raised"
    /\ p_index' = p_index + 1
    /\ UNCHANGED p_file
    /\ UNCHANGED <<lotVars, fifoVars, extractVars>>

\* line 453: return entries
FpReturn ==
    /\ p_pc = "rows"
    /\ p_index > Len(p_file)
    /\ p_pc' = "returned"
    /\ UNCHANGED <<p_file, p_index, p_entries, p_error>>
    /\ UNCHANGED <<lotVars, fifoVars, extractVars>>

\* the rows an IBKR file can hold, of every category, with the Id of the row
LedgerRows(id) ==
    {Row(id, 1, "Deposits/Withdrawals", "CHF", 100, "", 0, 0, 0),
     Row(id, 1, "Other Fees", "CHF", -2, "", 0, 0, 0),
     Row(id, 1, "Broker Interest Received", "CHF", 3, "", 0, 0, 0),
     Row(id, 1, "Dividends", "CHF", 100, "X", 0, 0, 0),
     Row(id, 1, "Withholding Tax", "CHF", -15, "X", 0, 0, 0),
     Row(id, 2, "SELL", "CHF", 200, "EUR.CHF", -100, 2, -1),
     Row(id, 1, "BUY", "CHF", -20, "X", 2, 10, -1),
     Row(id, 2, "SELL", "CHF", 15, "X", -1, 15, -1),
     Row(id, 3, "SELL", "CHF", 45, "X", -3, 15, 0),
     Row(id, 0, "BUY", "CHF", -20, "X", 2, 10, -1),
     Row(id, 1, "Transfer", "CHF", 100, "", 0, 0, 0)}

\* the file of the IBKR importer: one more row
AddLedgerRow ==
    /\ x_pc = "file"
    /\ Len(x_file) < MaxRows
    /\ \E row \in LedgerRows(Len(x_file) + 1) : x_file' = Append(x_file, row)
    /\ UNCHANGED <<x_pc, x_run, x_existing, x_index, x_entries, x_taxes,
                   x_unmatched, x_pos, x_indexes, x_warnings, x_log, x_out1>>
    /\ UNCHANGED <<lotVars, fifoVars, fpVars>>

\* the rows of a file of dividends and withholding-tax records, among them a
\* reimbursement of 15 and a new withholding of 30
RecalcRows(id) ==
    {Row(id, 1, "Dividends", "CHF", 100, "X", 0, 0, 0),
     Row(id, 1, "Withholding Tax", "CHF", -15, "X", 0, 0, 0),
     Row(id, 2, "Withholding Tax", "CHF", 15, "X", 0, 0, 0),
     Row(id, 2, "Withholding Tax", "CHF", -30, "X", 0, 0, 0)}

\* the file of the IBKR importer: one more row
AddRecalcRow ==
    /\ x_pc = "file"
    /\ Len(x_file) < MaxRows
    /\ \E row \in RecalcRows(Len(x_file) + 1) : x_file' = Append(x_file, row)
    /\ UNCHANGED <<x_pc, x_run, x_existing, x_index, x_entries, x_taxes,
                   x_unmatched, x_pos, x_indexes, x_warnings, x_log, x_out1>>
    /\ UNCHANGED <<lotVars, fifoVars, fpVars>>

\* lines 492-568: one step of the nested loops, while the list of entries
\* fits the memory
RecalculationStepBounded ==
    /\ Len(x_entries) < MaxLedger
    /\ RecalculationStep

\* the trade rows a file can hold: purchases of two shares on day 1 at 20 and
\* of one share on day 2 at 10, sales of one and of two shares on day 3
TradeRows(id) ==
    {Row(id, 1, "BUY", "CHF", -40, "X", 2, 20, 0),
     Row(id, 2, "BUY", "CHF", -10, "X", 1, 10, 0),
     Row(id, 3, "SELL", "CHF", 15, "X", -1, 15, 0),
     Row(id, 3, "SELL", "CHF", 30, "X", -2, 15, 0)}

\* what extract returned for an earlier file: the purchase of one share on
\* day 2 (trans_id 1) and its sale on day 3 (trans_id 2)
EarlierTrades ==
    LET buy == RowResult(Row(1, 2, "BUY", "CHF", -10, "X", 1, 10, 0), <<>>).entries
    IN  buy \o RowResult(Row(2, 3, "SELL", "CHF", 15, "X", -1, 15, 0), buy).entries

TradeHistories == {<<>>, EarlierTrades}

\* the file of the IBKR importer: one more row; the transaction numbers go on
\* after those of the earlier file
AddTradeRow ==
    /\ x_pc = "file"
    /\ Len(x_file) < MaxRows
    /\ \E row \in TradeRows(Len(x_file) + 3) : x_file' = Append(x_file, row)
    /\ UNCHANGED <<x_pc, x_run, x_existing, x_index, x_entries, x_taxes,
                   x_unmatched, x_pos, x_indexes, x_warnings, x_log, x_out1>>
    /\ UNCHANGED <<lotVars, fifoVars, fpVars>>

\* the transaction numbers of the rows of a file, in any order
RowIds == {3, 4, 5, 6}

\* the file of the IBKR importer: one more trade row, with a transaction
\* number no row of the file has yet
AddNumberedRow ==
    /\ x_pc = "file"
    /\ Len(x_file) < MaxRows
    /\ \E id \in RowIds :
          /\ \A r \in 1..Len(x_file) : x_file[r].Id # id
          /\ \E row \in TradeRows(id) : x_file' = Append(x_file, row)
    /\ UNCHANGED <<x_pc, x_run, x_existing, x_index, x_entries, x_taxes,
                   x_unmatched, x_pos, x_indexes, x_warnings, x_log, x_out1>>
    /\ UNCHANGED <<lotVars, fifoVars, fpVars>>

\* the history of a caller who holds one share bought on day 2 at 10
\* (trans_id 1) and received a dividend with 15 withheld (trans_id 0)
OpenHistory ==
    RowResult(Row(1, 2, "BUY", "CHF", -10, "X", 1, 10, 0), <<>>).entries
    \o CHOOSE h \in ExistingHistories : h # <<>>

\* the file of the IBKR importer: one more row, a trade or a dividend or tax
\* record; the transaction numbers go on after those of the history
AddHistoryRow ==
    /\ x_pc = "file"
    /\ Len(x_file) < MaxRows
    /\ \E row \in TradeRows(Len(x_file) + 3) \cup RecalcRows(Len(x_file) + 3) :
          x_file' = Append(x_file, row)
    /\ UNCHANGED <<x_pc, x_run, x_existing, x_index, x_entries, x_taxes,
                   x_unmatched, x_pos, x_indexes, x_warnings, x_log, x_out1>>
    /\ UNCHANGED <<lotVars, fifoVars, fpVars>>

\* lines 599-638: does the scan loop from entry k on reach a posting on the
\* security account whose units is None; posting.units.number (line 620)
\* then raises AttributeError
RECURSIVE FifoScanRaises(_, _, _, _, _)
FifoScanRaises(entries, k, transaction_id, account, processed) ==
    IF k > Len(entries) THEN FALSE
    ELSE IF ScanSkips(entries[k], transaction_id, processed)
    THEN FifoScanRaises(entries, k + 1, transaction_id, account, processed)
    ELSE \/ \E p \in 1..Len(entries[k].postings) :
               /\ entries[k].postings[p].account = account
               /\ entries[k].postings[p].units = MissingUnits
         \/ FifoScanRaises(entries, k + 1, transaction_id, account,
                           Append(processed, entries[k].meta.trans_id))

\* entries of the history whose posting on the account of X has no units
IncompleteEntries ==
    {Transaction(Meta(TRUE, id, TRUE), 1, Narration("Buy", "X"),
                 <<Posting(cash_account, Amount(-20, "CHF"), NoCost, NoPrice, 0),
                   Posting(security_account("X"), MissingUnits,
                           Cost(10, "CHF", 1), NoPrice, 0)>>) : id \in HistoryIds}

\* existing_entries + entries, as the caller passes them, complete or not
AddAnyEntry ==
    /\ f_pc = "history"
    /\ Len(f_entries) < MaxEntries
    /\ \E e \in HistoryEntries \cup IncompleteEntries :
          f_entries' = Append(f_entries, e)
    /\ UNCHANGED <<f_pc, f_row, f_k, f_processed, f_buys, f_sells, f_inventory,
                   f_j, f_before, f_sold_lots, f_warnings, f_out, f_fp_postings>>
    /\ UNCHANGED <<lotVars, extractVars, fpVars>>

SoldAmounts == {-3, -1}

\* the sale of the row is booked by both importers on the same history:
\* ibkr.py lines 363-390, where build_fifo_postings returns or raises, and
\* build_sell_postings of finpension.py
BookSale ==
    /\ f_pc = "scan"
    /\ \E amt \in SoldAmounts :
          LET row == [f_row EXCEPT !.Amount = amt, !.Proceeds = 30,
                                   !.TradePrice = 30]
          IN  /\ f_row' = row
              /\ IF FifoScanRaises(f_entries, 1, row.Id,
                                   security_account(row.Security), <<>>)
                 THEN f_pc' = "raised" /\ UNCHANGED f_out
                 ELSE /\ f_pc' = "done"
                      /\ f_out' = f_out \o RowResult(row, f_entries).entries
              /\ f_fp_postings' =
                    fp_build_sell_postings(f_entries,
                                           security_account(row.Security),
                                           cash_account,
                                           pnl_account(row.Security), row.Date,
                                           Amount(amt, row.Security),
                                           Price(30, "CHF"), Amount(30, "CHF"),
                                           NoPrice)
    /\ UNCHANGED <<f_entries, f_k, f_processed, f_buys, f_sells, f_inventory,
                   f_j, f_before, f_sold_lots, f_warnings>>
    /\ UNCHANGED <<lotVars, extractVars, fpVars>>

\* the caller's inventory: one more lot, whose units is None
AddIncompleteLot ==
    /\ lot_pc = "build"
    /\ Len(lot_inventory) < MaxLots
    /\ \E c \in CostNumbers, d \in Dates :
          /\ lot_inventory # <<>> => lot_inventory[Len(lot_inventory)].date <= d
          /\ lot_inventory' =
                Append(lot_inventory, Lot(0, MissingUnits, Cost(c, "CHF", d), d))
    /\ UNCHANGED <<lot_pc, lot_sell, lot_result, lot_fp_result>>
    /\ UNCHANGED <<fifoVars, extractVars, fpVars>>

\* sell_from_lot of finpension.py is called on the inventory
CallFpSellFromLot ==
    /\ lot_pc = "build"
    /\ lot_pc' = "returned"
    /\ \E n \in 1..(MaxQty + 1) :
          LET sell == Lot(0, Amount(-n, "X"), NoCost, 3)
          IN  /\ lot_sell' = sell
              /\ lot_fp_result' =
                    fp_sell_from_lot([i \in 1..Len(lot_inventory) |->
                                         FpLot(lot_inventory[i])],
                                     FpLot(sell))
    /\ UNCHANGED <<lot_inventory, lot_result>>
    /\ UNCHANGED <<fifoVars, extractVars, fpVars>>

-----------------------------------------------------------------------------
(* Specifications *)

InitLot ==
    /\ LotVarsAt("build") /\ FifoVarsAt("idle")
    /\ ExtractVarsAt("idle", {<<>>}) /\ FpVarsAt("idle")

NextLot == AddLot \/ CallSellFromLot

SpecLot == InitLot /\ [][NextLot]_vars

InitFifo ==
    /\ FifoVarsAt("history") /\ LotVarsAt("idle")
    /\ ExtractVarsAt("idle", {<<>>}) /\ FpVarsAt("idle")

NextFifo ==
    \/ AddEntry
    \/ ReadSellRow
    \/ ScanEntry
    \/ SortTrades
    \/ ReplaySell
    \/ SellCurrent
    \/ EmitSell

SpecFifo == InitFifo /\ [][NextFifo]_vars

InitExtract ==
    /\ ExtractVarsAt("file", ExistingHistories) /\ LotVarsAt("idle")
    /\ FifoVarsAt("idle") /\ FpVarsAt("idle")

NextExtract ==
    \/ AddRow
    \/ CallExtract
    \/ ReadRow
    \/ EndRows
    \/ DirectMatchEntry
    \/ CollectUnmatched
    \/ RecalculationStep
    \/ ReportAndReturn
    \/ CallExtractAgain

SpecExtract == InitExtract /\ [][NextExtract]_vars

\* one call of extract of one of the two importers on a file of rows of every
\* category
InitRows ==
    /\ LotVarsAt("idle") /\ FifoVarsAt("idle")
    /\ \/ ExtractVarsAt("file", {<<>>}) /\ FpVarsAt("idle")
       \/ ExtractVarsAt("idle", {<<>>}) /\ FpVarsAt("file")

NextRows ==
    \/ AddLedgerRow
    \/ CallExtract
    \/ ReadRow
    \/ EndRows
    \/ DirectMatchEntry
    \/ CollectUnmatched
    \/ RecalculationStep
    \/ ReportAndReturn
    \/ FpAddRow
    \/ FpCallExtract
    \/ FpReadRow
    \/ FpReturn

SpecRows == InitRows /\ [][NextRows]_vars

\* one call of extract on a file of dividends and tax records, with or without
\* the dividend of an earlier file in the history
InitRecalc ==
    /\ LotVarsAt("idle") /\ FifoVarsAt("idle") /\ FpVarsAt("idle")
    /\ ExtractVarsAt("file", ExistingHistories)

NextRecalc ==
    \/ AddRecalcRow
    \/ CallExtract
    \/ ReadRow
    \/ EndRows
    \/ DirectMatchEntry
    \/ CollectUnmatched
    \/ RecalculationStepBounded
    \/ ReportAndReturn

SpecRecalc == InitRecalc /\ [][NextRecalc]_vars

\* two calls of extract on a file of trades, the second with the history
\* followed by what the first returned; the file has no dividend and no tax
\* record, so the loops of lines 492-568 have no iteration
InitTrades ==
    /\ LotVarsAt("idle") /\ FifoVarsAt("idle") /\ FpVarsAt("idle")
    /\ ExtractVarsAt("file", TradeHistories)

NextTrades ==
    \/ AddTradeRow
    \/ CallExtract
    \/ ReadRow
    \/ EndRows
    \/ DirectMatchEntry
    \/ CollectUnmatched
    \/ ReportAndReturn
    \/ CallExtractAgain

SpecTrades == InitTrades /\ [][NextTrades]_vars

\* the same two calls on a file whose rows carry their transaction numbers in
\* any order
NextRerun ==
    \/ AddNumberedRow
    \/ CallExtract
    \/ ReadRow
    \/ EndRows
    \/ DirectMatchEntry
    \/ CollectUnmatched
    \/ ReportAndReturn
    \/ CallExtractAgain

SpecRerun == InitTrades /\ [][NextRerun]_vars

\* two calls of extract on a file of trades, dividends and tax records, by a
\* caller whose history holds an open lot and a dividend
InitHistory ==
    /\ LotVarsAt("idle") /\ FifoVarsAt("idle") /\ FpVarsAt("idle")
    /\ ExtractVarsAt("file", {OpenHistory})

NextHistory ==
    \/ AddHistoryRow
    \/ CallExtract
    \/ ReadRow
    \/ EndRows
    \/ DirectMatchEntry
    \/ CollectUnmatched
    \/ RecalculationStepBounded
    \/ ReportAndReturn
    \/ CallExtractAgain

SpecHistory == InitHistory /\ [][NextHistory]_vars

\* the lot builders and matchers on records of which some have no quantity:
\* a sale booked by both importers on a history, or one call of finpension's
\* sell_from_lot on an inventory
InitMissing ==
    /\ ExtractVarsAt("idle", {<<>>}) /\ FpVarsAt("idle")
    /\ \/ FifoVarsAt("history") /\ LotVarsAt("idle")
       \/ FifoVarsAt("idle") /\ LotVarsAt("build")

NextMissing ==
    \/ AddAnyEntry
    \/ ReadSellRow
    \/ BookSale
    \/ AddLot
    \/ AddIncompleteLot
    \/ CallFpSellFromLot

SpecMissing == InitMissing /\ [][NextMissing]_vars

-----------------------------------------------------------------------------
(* Valuation of postings *)

\* the weight of a posting: units at cost, else units at price, else units
Weight(p) ==
    IF ~p.cost.isNone
    THEN Amount(p.units.number * p.cost.number, p.cost.currency)
    ELSE IF ~p.price.isNone
    THEN Amount(p.units.number * p.price.number, p.price.currency)
    ELSE p.units

RECURSIVE Residual(_, _)
Residual(ps, currency) ==
    IF ps = <<>> THEN 0
    ELSE (IF Weight(Head(ps)).currency = currency
          THEN Weight(Head(ps)).number ELSE 0)
         + Residual(Tail(ps), currency)

Balanced(ps) ==
    \A i \in 1..Len(ps) : Residual(ps, Weight(ps[i]).currency) = 0

RECURSIVE SumTo(_, _)
SumTo(lots, n) == IF n = 0 THEN 0 ELSE lots[n].units.number + SumTo(lots, n - 1)

-----------------------------------------------------------------------------
(* Claims on sell_from_lot (SpecLot) *)

Returned == lot_pc = "returned"

FpInventory == [i \in 1..Len(lot_inventory) |-> FpLot(lot_inventory[i])]

WithUnits(lot, n) == [lot EXCEPT !.units = Amount(n, lot.units.currency)]

\* what a FIFO sale of x units returns for an inventory inv of three or
\* more lots when x <= Q1 + Q2
FifoSold(inv, x) ==
    IF x <= inv[1].units.number
    THEN <<WithUnits(inv[1], x)>>
    ELSE <<inv[1], WithUnits(inv[2], x - inv[1].units.number)>>

FifoOrder(inv, x, result) ==
    /\ result.sold_lots = FifoSold(inv, x)
    /\ Len(result.inventory) >= Len(inv) - 2
    /\ SubSeq(result.inventory, Len(result.inventory) - (Len(inv) - 3),
              Len(result.inventory))
         = SubSeq(inv, 3, Len(inv))

ThreeDates(inv) ==
    /\ Len(inv) >= 3
    /\ inv[1].date < inv[2].date
    /\ inv[2].date < inv[3].date

\* C2: with lots bought on D1 < D2 < D3, a sale of x <= Q1 takes units only
\* from the D1 lot, a sale of Q1 < x <= Q1 + Q2 takes the whole D1 lot and
\* the rest from the D2 lot, and the D3 lot is returned with Q3 unchanged
\* (in ibkr.py and in finpension.py).
C2_FifoOrder ==
    (/\ Returned
     /\ ThreeDates(lot_inventory)
     /\ -lot_sell.units.number >= 1
     /\ -lot_sell.units.number <= SumTo(lot_inventory, 2))
    => /\ FifoOrder(lot_inventory, -lot_sell.units.number, lot_result)
       /\ FifoOrder(FpInventory, -lot_sell.units.number, lot_fp_result)

C2_Witness ==
    /\ Returned
    /\ ThreeDates(lot_inventory)
    /\ -lot_sell.units.number > lot_inventory[1].units.number
    /\ -lot_sell.units.number < SumTo(lot_inventory, 2)
    /\ Len(lot_result.sold_lots) = 2
    /\ lot_result.inventory[2] = lot_inventory[3]

LotSplit(inv, s, result) ==
    /\ result.inventory =
         <<WithUnits(inv[1], inv[1].units.number - s)>> \o Tail(inv)
    /\ result.sold_lots = <<WithUnits(inv[1], s)>>
    /\ result.sold_lots[1].cost = inv[1].cost
    /\ result.sold_lots[1].date = inv[1].date

\* C3: selling s, strictly less than the quantity q of the oldest lot, leaves
\* that lot once with q - s, every other lot unchanged, and returns one sold
\* fragment of quantity s with the lot's cost basis and date.
C3_LotSplit ==
    (/\ Returned
     /\ lot_inventory # <<>>
     /\ -lot_sell.units.number >= 1
     /\ -lot_sell.units.number < lot_inventory[1].units.number)
    => /\ LotSplit(lot_inventory, -lot_sell.units.number, lot_result)
       /\ LotSplit(FpInventory, -lot_sell.units.number, lot_fp_result)

C3_Witness ==
    /\ Returned
    /\ Len(lot_inventory) >= 2
    /\ -lot_sell.units.number = 1
    /\ lot_inventory[1].units.number = 2
    /\ lot_result.inventory[1].units.number = 1
    /\ lot_result.sold_lots[1].cost.number = 20

-----------------------------------------------------------------------------
(* Claims on build_fifo_postings (SpecFifo) *)

\* C1: the postings of every synthesized sale transaction sum to zero, each
\* security posting valued at its cost (else its price) and the cash posting
\* at its fx rate, also for sales larger than the inventory and for lots
\* without a cost basis.
C1_SaleBalanced ==
    f_pc = "done"
    => /\ Balanced(f_out[1].postings)
       /\ Balanced(f_fp_postings)

AfterLoad == f_pc \in {"replay", "build", "done"}

\* the signed units of the sales applied so far: the replayed prior sells
\* and, once applied, the current sale
AppliedUnits ==
    SumTo(f_sells, f_j - 1)
    + (IF f_pc \in {"build", "done"} THEN f_row.Amount ELSE 0)

Abs(n) == IF n < 0 THEN -n ELSE n

AppliedMagnitudes ==
    -SumTo(f_sells, f_j - 1)
    + (IF f_pc \in {"build", "done"} THEN Abs(f_row.Amount) ELSE 0)

AllLotsPositive ==
    \A i \in 1..Len(f_inventory) : f_inventory[i].units.number > 0

\* C4 as stated: after the buys are loaded and after each sale applied, the
\* inventory total is the buys minus the sale magnitudes applied so far, and
\* no lot holds a negative or zero quantity.
C4_AsStated ==
    AfterLoad
    => /\ SumUnits(f_inventory) = SumUnits(f_buys) - AppliedMagnitudes
       /\ AllLotsPositive

\* C4 amended: the total is the buys minus the (negated) sale units applied
\* so far as long as every sale found enough units; after a sale that
\* sell_from_lot could not complete (a warning) the inventory is empty; no
\* lot holds a negative or zero quantity.
C4_InventoryTotal ==
    AfterLoad
    => /\ AllLotsPositive
       /\ f_warnings = <<>>
            => SumUnits(f_inventory) = SumUnits(f_buys) + AppliedUnits
       /\ f_warnings # <<>> => f_inventory = <<>>

C4_Witness ==
    /\ f_pc = "build"
    /\ f_j > 1
    /\ f_row.Amount = -1
    /\ f_warnings = <<>>
    /\ SumUnits(f_buys) = 3
    /\ SumUnits(f_inventory) = 1

WarningsNaming(id) ==
    {i \in 1..Len(f_warnings) : f_warnings[i].target_sell.id = id}

Oversold == -f_row.Amount > SumUnits(f_before)

\* C5: a sale of more units than the inventory holds does not stop the
\* import: sell_from_lot logs one warning naming the unmatched sale and the
\* (emptied) inventory, returns every available lot as sold and an empty
\* inventory, and the sale transaction is still emitted.
C5_InsufficientInventory ==
    (f_pc \in {"build", "done"} /\ Oversold)
    => /\ f_inventory = <<>>
       /\ f_sold_lots = f_before
       /\ Cardinality(WarningsNaming(f_row.Id)) = 1
       /\ LET w == f_warnings[Len(f_warnings)]
          IN  /\ w.target_sell.id = f_row.Id
              /\ w.target_sell.units =
                   Amount(f_row.Amount + SumUnits(f_before), f_row.Security)
              /\ w.inventory = [i \in 1..Len(f_before) |-> None]
              /\ w.sold = f_before
       /\ f_pc = "done"
            => /\ Len(f_out) = 1
               /\ f_out[1].meta.trans_id = f_row.Id
               /\ Len(f_out[1].postings) >= 2 + Len(f_before)

C5_Witness ==
    /\ f_pc = "done"
    /\ f_row.Amount = -3
    /\ SumUnits(f_before) = 2
    /\ Len(f_warnings) = 1
    /\ Len(f_out) = 1

\* entry i of the scanned list has a trans_id before T that no earlier
\* entry carried
Counted(i) ==
    /\ f_entries[i].meta.has_trans_id
    /\ StrLess(f_entries[i].meta.trans_id, f_row.Id)
    /\ \A j \in 1..(i - 1) :
          ~(/\ f_entries[j].meta.has_trans_id
            /\ f_entries[j].meta.trans_id = f_entries[i].meta.trans_id)

RECURSIVE CountedLots(_)
CountedLots(n) ==
    IF n = 0 THEN <<>>
    ELSE CountedLots(n - 1)
         \o (IF Counted(n)
             THEN TradeLots(f_entries[n], f_entries[n].postings,
                            security_account(f_row.Security))
             ELSE <<>>)

\* C6: while the inventory of a sale with id T is rebuilt, a transaction
\* contributes its buy/sell postings only if its trans_id is before T and no
\* earlier entry of the list carried that trans_id: a trade present twice is
\* counted once, and no trade with an id at or past T is counted.
C6_ReplayDedup ==
    f_pc = "scan"
    => /\ f_buys = SelectSeq(CountedLots(f_k - 1), IsBuy)
       /\ f_sells = SelectSeq(CountedLots(f_k - 1), IsSell)
       /\ \A i \in 1..Len(f_buys) : StrLess(f_buys[i].id, f_row.Id)
       /\ \A i \in 1..Len(f_sells) : StrLess(f_sells[i].id, f_row.Id)
       /\ \A id \in HistoryIds :
            Len(SelectSeq(f_buys \o f_sells, LAMBDA l : l.id = id)) <= 1

C6_Witness ==
    /\ f_pc = "scan"
    /\ f_k = 4
    /\ f_entries[1] = f_entries[2]
    /\ f_entries[1].meta.trans_id = 1
    /\ f_entries[3].meta.trans_id = 2
    /\ f_row.Id = 2
    /\ Len(f_buys) = 1
    /\ f_sells = <<>>

-----------------------------------------------------------------------------
(* Claims on Importer.extract *)

Returned2 == x_pc = "returned" /\ x_run = 2

\* the categories of rows for which the row loop appends a transaction
EntryTypes == {"Deposits/Withdrawals", "Dividends", "Other Fees",
               "Broker Interest Received", "BUY", "SELL"}

AppendsEntry(row) == row.Type \in EntryTypes

EntryRows == SelectSeq(x_file, AppendsEntry)

MatchingTaxes(entry) ==
    {i \in 1..Len(x_taxes) :
        /\ x_taxes[i].security = entry.narration.security
        /\ x_taxes[i].date = entry.date}

\* C8: in the direct-match pass, for a dividend transaction with a tax record
\* of the same security and date, the first such record is marked consumed
\* (no other record changes), and the transaction is replaced by one whose
\* cash posting is the original cash number plus the tax number in the tax
\* currency, whose second posting is the unchanged income posting and whose
\* third and last posting is the negated tax amount on the tax account
C8_DirectMatch ==
    [][(/\ x_pc = "pass1"
        /\ x_index' = x_index + 1
        /\ IsDividend(x_entries[x_index])
        /\ MatchingTaxes(x_entries[x_index]) # {})
       => LET entry == x_entries[x_index]
              i == CHOOSE n \in MatchingTaxes(entry) :
                       \A j \in MatchingTaxes(entry) : n <= j
              tax == x_taxes[i]
              rebuilt == x_entries'[x_index]
          IN  /\ x_taxes' = [x_taxes EXCEPT ![i].consumed = TRUE]
              /\ Len(x_entries') = Len(x_entries)
              /\ \A k \in 1..Len(x_entries) :
                    k # x_index => x_entries'[k] = x_entries[k]
              /\ rebuilt.meta = entry.meta
              /\ rebuilt.date = entry.date
              /\ rebuilt.narration = entry.narration
              /\ Len(rebuilt.postings) = 3
              /\ rebuilt.postings[1] =
                    Posting(cash_account,
                            Amount(entry.postings[1].units.number
                                   + tax.amount.number, tax.amount.currency),
                            NoCost, NoPrice, 0)
              /\ rebuilt.postings[2] = entry.postings[2]
              /\ rebuilt.postings[3].account = tax_account
              /\ rebuilt.postings[3].units =
                    Amount(-tax.amount.number, tax.amount.currency)]_vars

\* a dividend was rebuilt with the first of two tax records of its security
\* and date, and only that record is consumed
C8_Witness ==
    /\ x_pc = "pass1"
    /\ x_index = 2
    /\ IsDividend(x_entries[1])
    /\ Len(x_entries[1].postings) = 3
    /\ Cardinality(MatchingTaxes(x_entries[1])) = 2
    /\ \E i, j \in MatchingTaxes(x_entries[1]) :
          /\ i < j
          /\ x_taxes[i].consumed /\ ~x_taxes[j].consumed
          /\ x_taxes[i].amount # x_taxes[j].amount
          /\ x_entries[1].postings[3].units = NegAmount(x_taxes[i].amount)

\* C9: every withholding-tax posting of a returned dividend transaction,
\* directly matched or synthetic, is on the account <tax_account>:<CUR> of
\* the currency of its amount, which is the currency of the cash posting
C9_TaxAccountPerCurrency ==
    x_pc = "returned" =>
        \A k \in 1..Len(x_entries) :
            (IsDividend(x_entries[k]) /\ Len(x_entries[k].postings) = 3) =>
                /\ x_entries[k].postings[3].account =
                      tax_account \o ":" \o x_entries[k].postings[3].units.currency
                /\ x_entries[k].postings[3].units.currency =
                      x_entries[k].postings[1].units.currency

\* the direct-match scenario: a file of one dividend of 100 CHF for X and one
\* withholding tax of -15 CHF for X on the same date
DirectMatchScenario ==
    /\ Len(x_file) = 2
    /\ \E a, b \in 1..2 :
          /\ a # b
          /\ x_file[a] = Row(a, 1, "Dividends", "CHF", 100, "X", 0, 0, 0)
          /\ x_file[b] = Row(b, 1, "Withholding Tax", "CHF", -15, "X", 0, 0, 0)

\* C10 as stated: one transaction, cash posting 85 CHF, tax posting -15 CHF
C10_AsStated ==
    (DirectMatchScenario /\ x_pc = "returned") =>
        /\ Len(x_entries) = 1
        /\ x_entries[1].postings[1].units = Amount(85, "CHF")
        /\ x_entries[1].postings[3].units = Amount(-15, "CHF")

\* C10: in the direct-match scenario extract returns exactly one transaction,
\* whose cash posting is 85 CHF, whose income posting is -100 CHF and whose
\* posting on the tax account is +15 CHF, the negated tax amount
C10_DirectMatchAmounts ==
    (DirectMatchScenario /\ x_pc = "returned") =>
        /\ Len(x_entries) = 1
        /\ Len(x_entries[1].postings) = 3
        /\ x_entries[1].postings[1].account = cash_account
        /\ x_entries[1].postings[1].units = Amount(85, "CHF")
        /\ x_entries[1].postings[2].account = dividend_account("X")
        /\ x_entries[1].postings[2].units = Amount(-100, "CHF")
        /\ x_entries[1].postings[3].account = tax_account
        /\ x_entries[1].postings[3].units = Amount(15, "CHF")

C10_Witness ==
    /\ DirectMatchScenario
    /\ x_pc = "returned"
    /\ x_run = 1
    /\ x_existing = <<>>
    /\ x_taxes[1].consumed
    /\ x_log = <<>>

\* the entries itertools.chain(entries, existing_entries) is reading
Chained == IF x_pos.part = "entries" THEN x_entries ELSE x_existing

\* a dividend transaction of the security from which 15 CHF were withheld
WithheldDividend(entry, security) ==
    /\ IsDividend(entry)
    /\ entry.narration.security = security
    /\ Len(entry.postings) = 3
    /\ entry.postings[3].account = tax_account
    /\ entry.postings[3].units = Amount(15, "CHF")

\* the synthetic transaction of the pair (tax, match_tax) for a dividend
Synthetic(tax, match_tax, dividend) ==
    Transaction(tax.meta, tax.date, Narration("Dividends", tax.security),
        <<Posting(cash_account,
                  Amount(tax.amount.number + match_tax.amount.number,
                         tax.amount.currency), NoCost, NoPrice, 0),
          Posting(dividend_account(tax.security),
                  Amount(0, tax.amount.currency), NoCost, NoPrice, 0),
          Posting(tax_account,
                  Amount(-(tax.amount.number + match_tax.amount.number),
                         tax.amount.currency), NoCost, NoPrice, dividend.date)>>)

\* the recalculation scenario: records of +15 CHF and -15 CHF of one security
\* are left unconsumed, both dated after a dividend of the security from which
\* 15 CHF were withheld
RecalculationScenario(i, i2, dividend) ==
    /\ x_unmatched[i].amount = Amount(15, "CHF")
    /\ x_unmatched[i2].amount = Amount(-15, "CHF")
    /\ x_unmatched[i].security = x_unmatched[i2].security
    /\ WithheldDividend(dividend, x_unmatched[i].security)
    /\ dividend.date < x_unmatched[i].date
    /\ dividend.date < x_unmatched[i2].date

UsedInPair(i) == \E n \in 1..Len(x_indexes) : x_indexes[n] = i

\* the 'Unmatched withholding tax' warnings of the log
UnmatchedWarnings ==
    SelectSeq(x_log, LAMBDA w : w.msg = "Unmatched withholding tax")

TaxRows == SelectSeq(x_file, LAMBDA row : row.Type = "Withholding Tax")

\* C12: when extract returns, every Withholding Tax row of the file is a tax
\* record, and every record is consumed by a dividend, or is an unconsumed
\* record that entered a recalculation pair, or is reported by one
\* 'Unmatched withholding tax' warning of its security, date and value
C12_NoTaxDropped ==
    x_pc = "returned" =>
        /\ Len(x_taxes) = Len(TaxRows)
        /\ \A k \in 1..Len(x_taxes) :
              /\ x_taxes[k].meta = RowMeta(TaxRows[k])
              /\ x_taxes[k].amount = CashFlow(TaxRows[k])
              /\ x_taxes[k].consumed
                 \/ \E i \in 1..Len(x_unmatched) : x_unmatched[i] = x_taxes[k]
        /\ \A i \in 1..Len(x_unmatched) :
              UsedInPair(i)
              \/ \E n \in 1..Len(UnmatchedWarnings) :
                    UnmatchedWarnings[n] =
                        Warn("Unmatched withholding tax", x_unmatched[i].security,
                             x_unmatched[i].date, x_unmatched[i].amount)
        /\ Len(UnmatchedWarnings) =
              Cardinality({i \in 1..Len(x_unmatched) : ~UsedInPair(i)})

\* one record was consumed by the dividend of the file, the reimbursement is
\* reported
C12_Witness ==
    /\ x_pc = "returned"
    /\ Len(x_taxes) = 2
    /\ x_taxes[1].consumed
    /\ Len(x_unmatched) = 1
    /\ x_unmatched[1].amount.number > 0
    /\ ~UsedInPair(1)
    /\ Len(UnmatchedWarnings) = 1

DoubleMatched ==
    \E n \in 1..Len(x_warnings) :
        x_warnings[n].msg = "Double match withholding tax"

\* C13: when a dividend matched a tax record that was already consumed, a
\* 'Double match withholding tax' warning was issued and every dividend
\* transaction extract returns is balanced: its postings sum to zero
C13_DoubleMatchBalanced ==
    (x_pc = "returned" /\ DoubleMatched) =>
        \A k \in 1..Len(x_entries) :
            IsDividend(x_entries[k]) => Balanced(x_entries[k].postings)

-----------------------------------------------------------------------------
(* Claims on the postings of a sale *)

Sold == f_pc = "done"

SaleOut == f_out[Len(f_out)].postings

\* the cost recovered by the security postings of a sale: unit cost times
\* fragment quantity, over the postings with a cost
RECURSIVE RecoveredCost(_, _)
RecoveredCost(ps, account) ==
    IF ps = <<>> THEN 0
    ELSE (IF Head(ps).account = account /\ ~Head(ps).cost.isNone
          THEN Head(ps).cost.number * (-Head(ps).units.number)
          ELSE 0)
         + RecoveredCost(Tail(ps), account)

\* the accumulator A of the sale of the row, and of the same sale in
\* build_sell_postings, where the proceeds are converted with the fx rate
Accumulator ==
    -f_row.Proceeds + RecoveredCost(SaleOut, security_account(f_row.Security))

FpAccumulator ==
    -(f_fp_postings[1].units.number
      * (IF f_fp_postings[1].price.isNone THEN 1
         ELSE f_fp_postings[1].price.number))
    + RecoveredCost(f_fp_postings, security_account(f_row.Security))

\* C14 as stated: the PnL posting receives the negated accumulator
C14_AsStated ==
    Sold => SaleOut[2].units.number = -Accumulator

\* C14: the PnL posting of the sale transaction, the second posting, is on the
\* PnL account and receives the accumulator A = -proceeds + sum of
\* unit_cost * fragment quantity over the sold fragments with a cost, itself
\* and not negated; build_sell_postings does the same with the proceeds
\* converted by the fx rate
C14_PnlAmount ==
    Sold =>
        /\ SaleOut[2].account = pnl_account(f_row.Security)
        /\ SaleOut[2].units = Amount(Accumulator, f_row.Currency)
        /\ f_fp_postings[2].account = pnl_account(f_row.Security)
        /\ f_fp_postings[2].units.number = FpAccumulator

\* one unit bought at 10 was sold for 30: the PnL posting is -20
C14_Witness ==
    /\ Sold
    /\ Len(f_sold_lots) = 1
    /\ f_sold_lots[1].cost = Cost(10, "CHF", 1)
    /\ f_row.Amount = -1
    /\ Accumulator = -20
    /\ SaleOut[2].units = Amount(-20, "CHF")
    /\ f_fp_postings[2].units.number = -50

\* the security posting of a sold fragment: negated quantity, the cost of the
\* lot, the unit price of the sale
FragmentPosting(lot) ==
    Posting(security_account(f_row.Security),
            Amount(-lot.units.number, lot.units.currency), lot.cost,
            Price(f_row.TradePrice, f_row.Currency), 0)

FeesPosting ==
    Posting(fees_account, Amount(-f_row.Commission, f_row.CommissionCurrency),
            NoCost, NoPrice, 0)

\* C15 as stated: cash posting of the proceeds, PnL posting, one security
\* posting per sold fragment in FIFO order and last, when the commission is
\* not zero, a fees posting together with its cash offset
C15_AsStated ==
    Sold =>
        LET n == Len(f_sold_lots)
        IN  /\ SaleOut[1].account = cash_account
            /\ SaleOut[1].units = Amount(f_row.Proceeds, f_row.Currency)
            /\ SaleOut[2].account = pnl_account(f_row.Security)
            /\ \A i \in 1..n : SaleOut[2 + i] = FragmentPosting(f_sold_lots[i])
            /\ IF f_row.Commission = 0 THEN Len(SaleOut) = 2 + n
               ELSE /\ Len(SaleOut) = 4 + n
                    /\ SaleOut[3 + n] = FeesPosting
                    /\ SaleOut[4 + n].account = cash_account

\* C15: the postings of a sale transaction are, in this order: the cash
\* posting of proceeds plus commission, the PnL posting, when the commission
\* is not zero one fees posting of the negated commission (without a cash
\* offset of its own), then one security posting per sold fragment in FIFO
\* order
C15_PostingOrder ==
    Sold =>
        LET n == Len(f_sold_lots)
            c == IF f_row.Commission = 0 THEN 0 ELSE 1
        IN  /\ Len(SaleOut) = 2 + c + n
            /\ SaleOut[1] =
                  Posting(cash_account,
                          Amount(f_row.Proceeds + f_row.Commission, f_row.Currency),
                          NoCost, NoPrice, 0)
            /\ SaleOut[2].account = pnl_account(f_row.Security)
            /\ SaleOut[2].cost = NoCost /\ SaleOut[2].price = NoPrice
            /\ c = 1 => SaleOut[3] = FeesPosting
            /\ \A i \in 1..n : SaleOut[2 + c + i] = FragmentPosting(f_sold_lots[i])

\* a commission was paid on the sale of two lots
C15_Witness ==
    /\ Sold
    /\ f_row.Commission = -1
    /\ Len(f_sold_lots) = 2
    /\ f_sold_lots[1].date < f_sold_lots[2].date
    /\ Len(SaleOut) = 5
    /\ SaleOut[3].account = fees_account
    /\ SaleOut[1].units.number = 29

-----------------------------------------------------------------------------
(* Claims on the entries extract returns *)

\* C17: every transaction extract returns carries a document and a trans_id;
\* the transaction of a row, rebuilt by the tax pass or not, carries the Id
\* of its row, and a synthetic recalculation transaction the Id of the
\* reimbursement row, a Withholding Tax row of its date and security
C17_Metadata ==
    x_pc = "returned" =>
        /\ Len(x_entries) >= Len(EntryRows)
        /\ \A k \in 1..Len(x_entries) :
              /\ x_entries[k].meta.has_document
              /\ x_entries[k].meta.has_trans_id
              /\ IF k <= Len(EntryRows)
                 THEN /\ x_entries[k].meta.trans_id = EntryRows[k].Id
                      /\ x_entries[k].date = EntryRows[k].Date
                 ELSE \E r \in 1..Len(x_file) :
                         /\ x_file[r].Type = "Withholding Tax"
                         /\ x_file[r].Proceeds > 0
                         /\ x_file[r].Id = x_entries[k].meta.trans_id
                         /\ x_file[r].Date = x_entries[k].date
                         /\ x_file[r].Security = x_entries[k].narration.security

\* a dividend of the file and a synthetic transaction for the dividend of the
\* history were returned
C17_Witness ==
    /\ x_pc = "returned"
    /\ Len(x_file) = 3
    /\ Len(x_entries) = 2
    /\ x_file[1].Type = "Dividends"
    /\ x_entries[1].meta.trans_id = 1
    /\ Len(x_entries[2].postings) = 3
    /\ x_entries[2].postings[3].effective_date = 1
    /\ x_entries[2].meta.trans_id \in {2, 3}
    /\ x_file[x_entries[2].meta.trans_id].Proceeds = 15

\* C16: every entry in the list extract returns is balanced: its postings
\* sum to zero
C16_AllBalanced ==
    x_pc = "returned" =>
        \A k \in 1..Len(x_entries) : Balanced(x_entries[k].postings)

-----------------------------------------------------------------------------
(* Claims on rows that cannot be converted *)

\* a row whose date cannot be parsed; for finpension also a trade or
\* dividend row without the ISIN of a security
IbkrMalformed(row) == row.Date = 0

FpMalformed(row) ==
    \/ row.date = 0
    \/ row.category \in {"Dividend", "Buy", "Sell"} /\ row.ISIN = ""

IbkrTypes == {"Deposits/Withdrawals", "Dividends", "Other Fees",
              "Withholding Tax", "Broker Interest Received", "BUY", "SELL"}

FpCategories == {"Flat-rate administrative fee", "Deposit", "Interests",
                 "Dividend", "Transfer", "Buy", "Sell"}

\* the rows of the IBKR file that are converted to a transaction
ValidEntryRows ==
    SelectSeq(x_file, LAMBDA row : ~IbkrMalformed(row) /\ AppendsEntry(row))

WarningsOf(msg) == SelectSeq(x_warnings, LAMBDA w : w.msg = msg)

\* the row the finpension loop read last (the rows are read last to first)
FpLastRead == p_file[Len(p_file) - (p_index - 1) + 1]

\* C18 as stated: extract of either importer never returns a list for a file
\* with a malformed row
C18_AsStated ==
    /\ x_pc = "returned" => \A r \in 1..Len(x_file) : ~IbkrMalformed(x_file[r])
    /\ p_pc = "returned" => \A r \in 1..Len(p_file) : ~FpMalformed(p_file[r])

\* C18: a malformed row is fatal for finpension's extract: it never returns
\* for a file with such a row, and when it raises at a malformed row it leaves
\* with ValueError or KeyError; IBKR's extract returns for such a file, with
\* one 'Error parsing row' warning per malformed row and the transactions of
\* the other rows
C18_MalformedRow ==
    /\ p_pc = "returned" => \A r \in 1..Len(p_file) : ~FpMalformed(p_file[r])
    /\ (p_pc = "raised" /\ FpMalformed(FpLastRead)) =>
          p_error = (IF FpLastRead.date = 0 THEN "ValueError" ELSE "KeyError")
    /\ x_pc = "returned" =>
          /\ Len(WarningsOf("Error parsing row")) =
                Len(SelectSeq(x_file, IbkrMalformed))
          /\ Len(x_entries) = Len(ValidEntryRows)

\* IBKR's extract returned two transactions for a file of three rows, one of
\* them malformed
C18_Witness ==
    /\ x_pc = "returned"
    /\ Len(x_file) = 3
    /\ IbkrMalformed(x_file[2])
    /\ Len(x_entries) = 2
    /\ Len(WarningsOf("Error parsing row")) = 1

\* C19: IBKR's extract converts a row whose date cannot be parsed to a
\* warning naming the row and to no entry and no tax record, and goes on with
\* the next row; when it returns, the list holds the transactions of the
\* other rows in file order
C19_InvalidRowSkipped ==
    /\ [][(x_pc = "rows" /\ x_index' = x_index + 1
           /\ IbkrMalformed(x_file[x_index]))
          => /\ x_pc' = "rows"
             /\ x_entries' = x_entries
             /\ x_taxes' = x_taxes
             /\ x_warnings' =
                   Append(x_warnings,
                          Warn("Error parsing row", "", 0, x_file[x_index].Id))]_vars
    /\ [](x_pc = "returned" =>
            /\ Len(x_entries) = Len(ValidEntryRows)
            /\ \A k \in 1..Len(ValidEntryRows) :
                  /\ x_entries[k].meta.trans_id = ValidEntryRows[k].Id
                  /\ x_entries[k].date = ValidEntryRows[k].Date)

\* the first row of the file was malformed, the second and third are returned
C19_Witness ==
    /\ x_pc = "returned"
    /\ Len(x_file) = 3
    /\ IbkrMalformed(x_file[1])
    /\ Len(x_entries) = 2
    /\ x_entries[1].meta.trans_id = 2
    /\ x_entries[2].meta.trans_id = 3
    /\ x_warnings = <<Warn("Error parsing row", "", 0, 1)>>

\* C20 as stated: extract of either importer never returns a list for a file
\* with a row of a type it does not recognise
C20_AsStated ==
    /\ x_pc = "returned" =>
          \A r \in 1..Len(x_file) : x_file[r].Type \in IbkrTypes
    /\ p_pc = "returned" =>
          \A r \in 1..Len(p_file) : p_file[r].category \in FpCategories

\* C20: finpension's extract never returns for a file with a row of an
\* unknown category and leaves with Warning when it reads one; IBKR's extract
\* returns for a file with rows of an unsupported type, with one 'unsupported
\* transaction' warning per such row that parses and with no entry for it
C20_UnknownType ==
    /\ p_pc = "returned" =>
          \A r \in 1..Len(p_file) : p_file[r].category \in FpCategories
    /\ (p_pc = "raised" /\ FpLastRead.date # 0
        /\ FpLastRead.category \notin FpCategories) => p_error = "Warning"
    /\ x_pc = "returned" =>
          /\ Len(WarningsOf("unsupported transaction of type")) =
                Len(SelectSeq(x_file, LAMBDA row :
                        ~IbkrMalformed(row) /\ row.Type \notin IbkrTypes))
          /\ \A k \in 1..Len(x_entries) :
                x_file[x_entries[k].meta.trans_id].Type \in IbkrTypes

\* IBKR's extract returned the transactions of the two other rows
C20_Witness ==
    /\ x_pc = "returned"
    /\ Len(x_file) = 3
    /\ x_file[2].Type = "Transfer"
    /\ Len(x_entries) = 2
    /\ Len(WarningsOf("unsupported transaction of type")) = 1

-----------------------------------------------------------------------------
(* Claims on the transaction of a sale row *)

IsSale(entry) == entry.narration.prefix = "Sell"

\* the quantities of the purchases of a security in the rows before row id
BoughtBefore(id, security) ==
    LET buys == SelectSeq(SubSeq(x_file, 1, id - 1),
                          LAMBDA row : /\ row.Type = "BUY"
                                       /\ row.Date # 0
                                       /\ row.Security = security)
    IN  [i \in 1..Len(buys) |-> buys[i].Amount]

RECURSIVE SumSeq(_)
SumSeq(s) == IF s = <<>> THEN 0 ELSE Head(s) + SumSeq(Tail(s))

\* the units of the postings of an entry on an account
UnitsOn(entry, account) ==
    LET ps == SelectSeq(entry.postings, LAMBDA p : p.account = account)
    IN  [i \in 1..Len(ps) |-> ps[i].units.number]

\* the quantity the sale transactions before entry k took from the lots
RECURSIVE SoldBefore(_, _)
SoldBefore(k, security) ==
    IF k = 1 THEN 0
    ELSE SoldBefore(k - 1, security)
         + (IF IsSale(x_entries[k - 1])
               /\ x_entries[k - 1].narration.security = security
            THEN -SumSeq(UnitsOn(x_entries[k - 1], security_account(security)))
            ELSE 0)

\* first in, first out on quantities: what a sale of take units receives from
\* lots of these sizes of which skip units are gone
RECURSIVE Fragments(_, _, _)
Fragments(sizes, skip, take) ==
    IF sizes = <<>> \/ take = 0 THEN <<>>
    ELSE IF skip >= Head(sizes)
    THEN Fragments(Tail(sizes), skip - Head(sizes), take)
    ELSE LET avail == Head(sizes) - skip
             f == IF avail < take THEN avail ELSE take
         IN  <<f>> \o Fragments(Tail(sizes), 0, take - f)

\* C21 as stated: the sale transaction of either importer has a PnL posting
\* and security postings that carry the cost of the lots consumed
C21_AsStated ==
    /\ x_pc = "returned" =>
          \A k \in 1..Len(x_entries) :
              IsSale(x_entries[k]) =>
                  \E p \in 1..Len(x_entries[k].postings) :
                      x_entries[k].postings[p].account =
                          pnl_account(x_entries[k].narration.security)
    /\ p_pc = "returned" =>
          \A k \in 1..Len(p_entries) :
              IsSale(p_entries[k]) =>
                  /\ Len(p_entries[k].postings) >= 3
                  /\ \E b \in 1..Len(p_entries) :
                        /\ p_entries[b].narration.prefix = "Buy"
                        /\ p_entries[k].postings[2].cost.number =
                              p_entries[b].postings[2].cost.number

\* C21: the transaction IBKR's extract returns for a SELL row holds the cash
\* posting, the PnL posting and one posting per lot fragment that first in,
\* first out matching takes from the purchases of the rows before it, less
\* what the sales before it took, each with the cost of its purchase; the
\* transaction finpension's extract returns for a Sell row holds two
\* postings, the cash flow and the shares with a cost computed from the row's
\* own cash flow, and no PnL posting
C21_SaleEntry ==
    /\ x_pc = "returned" =>
          \A k \in 1..Len(x_entries) :
              IsSale(x_entries[k]) =>
                  LET row == x_file[x_entries[k].meta.trans_id]
                      security == row.Security
                      taken == Fragments(BoughtBefore(row.Id, security),
                                         SoldBefore(k, security), -row.Amount)
                      n == IF row.Commission # 0 THEN 3 ELSE 2
                      ps == x_entries[k].postings
                  IN  /\ Len(ps) = n + Len(taken)
                      /\ ps[1].account = cash_account
                      /\ ps[2] = Posting(pnl_account(security),
                                         Amount(-row.Proceeds + 10 * SumSeq(taken),
                                                row.Currency),
                                         NoCost, NoPrice, 0)
                      /\ \A i \in 1..Len(taken) :
                            ps[n + i] = Posting(security_account(security),
                                                Amount(-taken[i], security),
                                                Cost(10, "CHF", 1),
                                                Price(row.TradePrice, row.Currency),
                                                0)
    /\ p_pc = "returned" =>
          \A k \in 1..Len(p_entries) :
              LET row == p_file[Len(p_file) - k + 1]
              IN  row.category = "Sell" =>
                      p_entries[k].postings =
                          <<Posting(fp_parent_account \o ":Cash",
                                    Amount(row.cashFlow, "CHF"), NoCost, NoPrice, 0),
                            Posting(fp_parent_account \o ":"
                                        \o fp_securities[row.ISIN],
                                    Amount(row.shares, fp_securities[row.ISIN]),
                                    CostSpec(FpAbs(row.cashFlow) \div FpAbs(row.shares),
                                             FpAbs(row.cashFlow), "CHF"),
                                    NoPrice, 0)>>

\* finpension's extract returned the purchase of two shares for 20 and the
\* sale of one of them for 15: the sale has two postings, at cost 15
C21_Witness ==
    /\ p_pc = "returned"
    /\ Len(p_entries) = 2
    /\ p_entries[1].narration.prefix = "Buy"
    /\ IsSale(p_entries[2])
    /\ Len(p_entries[2].postings) = 2
    /\ p_entries[2].postings[2].cost.number = 15
    /\ p_entries[1].postings[2].cost.number = 10

-----------------------------------------------------------------------------
(* Claims on the recalculation pass *)

\* a transaction appended by the recalculation pass: its posting on the
\* dividend account is zero
IsSynthetic(entry) ==
    /\ IsDividend(entry)
    /\ Len(entry.postings) = 3
    /\ entry.postings[2].units.number = 0

\* the recalculation pass appends a transaction in this step
AppendsSynthetic == x_pc = "pass2" /\ Len(x_entries') = Len(x_entries) + 1

\* C22: the recalculation pass ends: a transaction it appends to the list of
\* entries while it scans that list for the original dividend is not itself
\* taken for the original dividend by the running scan, which would append
\* the same transaction again at every step
C22_RecalculationTerminates ==
    [][(AppendsSynthetic /\ x_pos.part = "entries")
       => ~IsOriginalDividend(x_entries'[Len(x_entries')],
                              x_unmatched[x_pos.i])]_vars


\* the dividend transactions of the file that carry the amount of tax
\* record i: the record is the first of their security and date, and their
\* tax posting is its negated amount
TaxedBy(i) ==
    {k \in 1..Len(x_entries) :
        /\ IsDividend(x_entries[k])
        /\ ~IsSynthetic(x_entries[k])
        /\ FirstTax(x_taxes, x_entries[k].narration.security,
                    x_entries[k].date) = i
        /\ HasTaxValue(x_entries[k], NegAmount(x_taxes[i].amount))}

\* C23: when extract returns, the amount of every withholding-tax record is
\* on at most one dividend transaction, also when several dividends have the
\* security and the date of the record
C23_TaxAttachedOnce ==
    x_pc = "returned" =>
        \A i \in 1..Len(x_taxes) : Cardinality(TaxedBy(i)) <= 1

-----------------------------------------------------------------------------
(* Claims on the lots of the sales of a file *)

\* the postings on the account of security X in the history and in the
\* entries of the call
TradePostings ==
    LET all == x_existing \o x_entries
        on(k) == SelectSeq(all[k].postings,
                           LAMBDA p : p.account = security_account("X"))
        RECURSIVE From(_)
        From(k) == IF k > Len(all) THEN <<>> ELSE on(k) \o From(k + 1)
    IN  From(1)

\* the quantity bought, and the quantity sold, at a cost basis
BoughtAt(cost) ==
    SumSeq([i \in 1..Len(TradePostings) |->
                IF TradePostings[i].cost = cost /\ TradePostings[i].units.number > 0
                THEN TradePostings[i].units.number ELSE 0])

SoldAt(cost) ==
    SumSeq([i \in 1..Len(TradePostings) |->
                IF TradePostings[i].cost = cost /\ TradePostings[i].units.number < 0
                THEN -TradePostings[i].units.number ELSE 0])

\* C24: in the first call of extract no lot is oversold: the sale postings
\* with the cost and the date of a purchase never sell more than was bought
\* at that cost and date
C24_NoLotOversold ==
    x_run = 1 =>
        \A i \in 1..Len(TradePostings) :
            SoldAt(TradePostings[i].cost) <= BoughtAt(TradePostings[i].cost)


\* the rows of the earlier file and the rows of the file read so far
RowsRead ==
    (IF x_existing = <<>> THEN <<>>
     ELSE <<Row(1, 2, "BUY", "CHF", -10, "X", 1, 10, 0),
            Row(2, 3, "SELL", "CHF", 15, "X", -1, 15, 0)>>)
    \o SubSeq(x_file, 1, x_index - 1)

\* the transaction numbers rise with the trade dates
Chronological(rows) ==
    \A a, b \in 1..Len(rows) : a < b => rows[a].Date <= rows[b].Date

\* a lot without the number of its transaction
LotView(lot) == [units |-> lot.units, cost |-> lot.cost, date |-> lot.date]

\* the inventory kept by applying the trades one at a time: a purchase adds a
\* lot at the end, a sale is taken from the lots with sell_from_lot
RECURSIVE Bookkeeping(_, _)
Bookkeeping(inventory, rows) ==
    IF rows = <<>> THEN inventory
    ELSE LET row == Head(rows)
             lot == Lot(row.Id, Amount(row.Amount, row.Security),
                        IF row.Type = "BUY"
                        THEN Cost(row.TradePrice, row.Currency, row.Date)
                        ELSE NoCost,
                        row.Date)
         IN  Bookkeeping(IF row.Type = "BUY" THEN Append(inventory, lot)
                         ELSE sell_from_lot(inventory, lot).inventory,
                         Tail(rows))

\* the inventory build_fifo_postings rebuilds for a sale with this number
Rebuilt(transaction_id) ==
    LET lots == FifoScan(x_existing \o x_entries, 1, transaction_id,
                         security_account("X"), <<>>)
    IN  FifoReplay(SortByDate(SelectSeq(lots, IsBuy)),
                   SortByDate(SelectSeq(lots, IsSell)), <<>>).inventory

\* extract is about to read a SELL row
BeforeSale ==
    /\ x_pc = "rows"
    /\ x_run = 1
    /\ x_index <= Len(x_file)
    /\ x_file[x_index].Type = "SELL"

C26_SameSalePostings ==
    Returned2 =>
        \A k \in 1..Len(x_file) :
            x_file[k].Type = "SELL" => x_entries[k].postings = x_out1[k].postings


(***************************************************************************)
(* Claims on the records of the recalculation pass                         *)
(***************************************************************************)

\* the number of synthetic transactions the record of index i of the
\* unconsumed records has entered, as reimbursement or as withholding
TimesUsed(i) == Cardinality({n \in 1..Len(x_indexes) : x_indexes[n] = i})

\* C27: when IBKR extract returns, every unconsumed tax record has entered at
\* most one synthetic transaction of the recalculation pass, so that every
\* reimbursement/withholding pair has yielded at most one of them
C27_RecordUsedOnce ==
    x_pc = "returned" => \A i \in 1..Len(x_unmatched) : TimesUsed(i) <= 1


(***************************************************************************)
(* Claims on the caller's history                                          *)
(***************************************************************************)

\* the sale took a share of the lot of the history
SoldFromHistory(entry) ==
    /\ IsSale(entry)
    /\ \E p \in 1..Len(entry.postings) :
          /\ entry.postings[p].account = security_account("X")
          /\ entry.postings[p].units.number = -1
          /\ ~entry.postings[p].cost.isNone
          /\ entry.postings[p].cost.number = 10
          /\ entry.postings[p].cost.date = 2

\* C28: no step of a call of IBKR extract, build_fifo_postings included,
\* changes existing_entries: the list keeps its length, its transactions and
\* their postings and metadata from the call to the return
C28_HistoryUnchanged == [][x_run' = x_run => x_existing' = x_existing]_vars

\* the first call has returned a sale matched against the lot of the history
\* and a recalculation found from the dividend of the history
C28_Witness ==
    /\ x_pc = "returned"
    /\ x_run = 1
    /\ x_existing = OpenHistory
    /\ \E k \in 1..Len(x_entries) : SoldFromHistory(x_entries[k])
    /\ \E k \in 1..Len(x_entries) : IsSynthetic(x_entries[k])


(***************************************************************************)
(* Claims on the sign of the sale quantity                                 *)
(***************************************************************************)

\* the matcher has reported the request and has left the inventory alone
RejectedUnchanged(result, inventory) ==
    /\ result.warnings # <<>>
    /\ result.inventory = inventory
    /\ \A i \in 1..Len(result.sold_lots) : result.sold_lots[i].units.number >= 0

\* C29: a call of sell_from_lot (ibkr.py and finpension.py) whose sale
\* quantity is positive, the sign of a lot, is reported, returns the inventory
\* with the quantities it had and returns no sold fragment of negative
\* quantity
C29_SaleSignEnforced ==
    (lot_pc = "returned" /\ lot_sell.units.number > 0)
        => /\ RejectedUnchanged(lot_result, lot_inventory)
           /\ RejectedUnchanged(lot_fp_result,
                                [i \in 1..Len(lot_inventory) |->
                                    FpLot(lot_inventory[i])])


(***************************************************************************)
(* Claims on records without a quantity                                    *)
(***************************************************************************)

\* an entry the builders count for the sale of the row (it has a trans_id
\* smaller than the row's, the first entry to have it, and is not dated after
\* the sale) holds a posting on the security account without units
CountedIncomplete ==
    /\ f_pc \in {"done", "raised"}
    /\ \E k \in 1..Len(f_entries) :
          /\ f_entries[k].meta.has_trans_id
          /\ StrLess(f_entries[k].meta.trans_id, f_row.Id)
          /\ \A j \in 1..(k - 1) :
                ~(/\ f_entries[j].meta.has_trans_id
                  /\ f_entries[j].meta.trans_id = f_entries[k].meta.trans_id)
          /\ f_entries[k].date <= f_row.Date
          /\ \E p \in 1..Len(f_entries[k].postings) :
                /\ f_entries[k].postings[p].account = security_account("X")
                /\ f_entries[k].postings[p].units = MissingUnits

\* the matcher has gone through an inventory whose first lot has no units
FirstLotIncomplete ==
    /\ lot_pc = "returned"
    /\ lot_inventory # <<>>
    /\ lot_inventory[1].units = MissingUnits

\* C30: a posting or a lot on the security account whose units is missing is
\* an error: neither build_fifo_postings (ibkr.py) nor build_sell_postings
\* (finpension.py) returns postings for a sale whose history holds such a
\* posting, and finpension's sell_from_lot does not return from an inventory
\* whose first lot is such a lot
C30_MissingQuantityFatal ==
    /\ CountedIncomplete => (f_pc = "raised" /\ f_fp_postings = <<>>)
    /\ ~FirstLotIncomplete

\* the IBKR builder alone: it does not return when a counted posting has no
\* units
IbkrRaisesOnMissing == CountedIncomplete => f_pc = "raised"

====
